---------------------------- MODULE Spec2Model ----------------------------
(***************************************************************************)
(* Knowledge retrieval and response synthesis of the operator-assistant    *)
(* bot: src/bot_main.py (KnowledgeBase, ResponseGenerator).                *)
(*                                                                         *)
(* Text is modelled by TLA+ strings, character by character.  The source   *)
(* works on Cyrillic text; the module's strings are ASCII, so every marker *)
(* of the source is written in Latin transliteration (the original is      *)
(* quoted beside each), which keeps the substring relations between the    *)
(* markers ('mozhno li' inside 'vozmozhno li', 'nuzhno' inside 'ne         *)
(* nuzhno').                                                               *)
(***************************************************************************)
EXTENDS Integers, Sequences, FiniteSets, TLC

VARIABLES
    file,       \* KNOWLEDGE_FILE on disk: [status, text]
    segs,       \* the segments the corpus text was joined from (input)
    question,   \* the query / question of the current call (input)
    pc,         \* position of the current operation
    ret,        \* what the last completed operation returned or raised
    calls,      \* prompts posted to the generative service by the current call
    reply,      \* what the service answered to the current call's POST
    frame,      \* locals of a generate_response suspended on its await
    disk,       \* the files besides the corpus file: backups, temporary, export
    accuracy_stats, \* the counters of answered and of correct answers
    writer,     \* the update of the corpus file that is under way
    pending,    \* a second generate_response call, running beside the current one
    keyboards   \* the accuracy keyboards sent to the chat, by message_id

vars == <<file, segs, question, pc, ret, calls, reply, frame,
          disk, accuracy_stats, writer, pending, keyboards>>

\* What the retrieval path leaves alone.
others == <<disk, accuracy_stats, writer, pending, keyboards>>

\* A file that does not exist, a text file, and a JSON file holding
\* {export_time, article_count, articles: [{id, title, content}]}.
Absent == [exists |-> FALSE, fmt |-> "", text |-> "", article_count |-> 0, articles |-> << >>]

TextFile(text) ==
    [exists |-> TRUE, fmt |-> "txt", text |-> text, article_count |-> 0, articles |-> << >>]

JsonFile(article_count, articles) ==
    [exists |-> TRUE, fmt |-> "json", text |-> "", article_count |-> article_count,
     articles |-> articles]

\* No file besides the corpus file: BACKUP_KNOWLEDGE_FILE, the backups
\* database/knowledge_backup_<timestamp>.txt in the order of their creation,
\* TEMP_KNOWLEDGE_FILE and the file written by export_knowledge.
NoOtherFiles == [backup |-> Absent, stamped |-> << >>, temp |-> Absent, export |-> Absent]

\* No update of the corpus file is under way. Of an update: the operation,
\* how far it is, the corpus content before it and the content it writes,
\* whether the corpus file existed before it, and the success it returns.
NoWriter ==
    [op |-> "none", stage |-> "none", old |-> "", new |-> "", existed |-> FALSE,
     ok |-> TRUE]

----------------------------------------------------------------------------
(* Bounds of the model.                                                    *)

\* Longest corpus, in segments, that SpecParse joins.
MaxSegs == 3

\* Most words of a query, and of an article, that SpecScore scores.
MaxQueryWords == 2

MaxArticleWords == 2

\* Longest corpus, in articles, that SpecRank ranks.
MaxArticles == 3

\* Longest article, in lines, that Spec draws.
MaxLines == 3

----------------------------------------------------------------------------
(* Python's str operations, computed as CPython computes them.             *)

Min(a, b) == IF a < b THEN a ELSE b

\* s[i] of a 1-based string.
Ch(s, i) == SubSeq(s, i, i)

\* s[:n]
Take(s, n) == SubSeq(s, 1, Min(n, Len(s)))

\* s[n:] (0-based n, as in Python)
Drop(s, n) == SubSeq(s, n + 1, Len(s))

RECURSIVE Repeat(_, _)
\* c * n
Repeat(c, n) == IF n <= 0 THEN "" ELSE c \o Repeat(c, n - 1)

\* s.startswith(p)
StartsWith(s, p) == Len(p) <= Len(s) /\ SubSeq(s, 1, Len(p)) = p

\* s.endswith(p)
EndsWith(s, p) == Len(p) <= Len(s) /\ SubSeq(s, Len(s) - Len(p) + 1, Len(s)) = p

\* The 1-based positions at which sub occurs in s.
Occurrences(s, sub) ==
    { i \in 1..(Len(s) - Len(sub) + 1) : SubSeq(s, i, i + Len(sub) - 1) = sub }

\* s.find(sub, start) as a 1-based position at or after from; 0 when absent.
Find(s, sub, from) ==
    LET later == { i \in Occurrences(s, sub) : i >= from }
    IN  IF later = {} THEN 0
        ELSE CHOOSE i \in later : \A j \in later : i <= j

\* sub in s
Contains(s, sub) == Occurrences(s, sub) # {}

RECURSIVE CountFrom(_, _, _)
CountFrom(s, sub, from) ==
    LET i == Find(s, sub, from)
    IN  IF i = 0 THEN 0 ELSE 1 + CountFrom(s, sub, i + Len(sub))

\* s.count(sub) for a non-empty sub: occurrences found scanning left to
\* right, each search resuming after the end of the previous match.
Count(s, sub) == CountFrom(s, sub, 1)

RECURSIVE SplitFrom(_, _, _)
SplitFrom(s, sep, from) ==
    LET i == Find(s, sep, from)
    IN  IF i = 0 THEN << SubSeq(s, from, Len(s)) >>
        ELSE << SubSeq(s, from, i - 1) >> \o SplitFrom(s, sep, i + Len(sep))

\* s.split(sep) for a non-empty sep.
Split(s, sep) == SplitFrom(s, sep, 1)

\* The whitespace of the model's alphabet (str.isspace).
IsSpace(c) == c \in {" ", "\n", "\t"}

RECURSIVE LStrip(_)
LStrip(s) == IF Len(s) > 0 /\ IsSpace(Ch(s, 1)) THEN LStrip(Drop(s, 1)) ELSE s

RECURSIVE RStrip(_)
RStrip(s) ==
    IF Len(s) > 0 /\ IsSpace(Ch(s, Len(s))) THEN RStrip(Take(s, Len(s) - 1)) ELSE s

\* s.strip()
Strip(s) == RStrip(LStrip(s))

RECURSIVE JoinFrom(_, _, _)
JoinFrom(parts, sep, i) ==
    IF i > Len(parts) THEN ""
    ELSE IF i = Len(parts) THEN parts[i]
    ELSE parts[i] \o sep \o JoinFrom(parts, sep, i + 1)

\* sep.join(parts)
Join(parts, sep) == JoinFrom(parts, sep, 1)

UpperCase == "ABCDEFGHIJKLMNOPQRSTUVWXYZ"

LowerCase == "abcdefghijklmnopqrstuvwxyz"

LowerCh(c) ==
    LET i == Find(UpperCase, c, 1)
    IN  IF i = 0 THEN c ELSE Ch(LowerCase, i)

RECURSIVE Lower(_)
\* s.lower(): every character lower-cased (halving keeps the evaluation
\* shallow on long texts).
Lower(s) ==
    IF Len(s) = 0 THEN ""
    ELSE IF Len(s) = 1 THEN LowerCh(s)
    ELSE Lower(Take(s, Len(s) \div 2)) \o Lower(Drop(s, Len(s) \div 2))

RECURSIVE WordsFrom(_, _)
WordsFrom(s, from) ==
    LET solid == { i \in from..Len(s) : ~IsSpace(Ch(s, i)) }
    IN  IF solid = {} THEN << >>
        ELSE LET b == CHOOSE i \in solid : \A j \in solid : i <= j
                 gaps == { i \in b..Len(s) : IsSpace(Ch(s, i)) }
                 e == IF gaps = {} THEN Len(s) + 1
                      ELSE CHOOSE i \in gaps : \A j \in gaps : i <= j
             IN  << SubSeq(s, b, e - 1) >> \o WordsFrom(s, e)

\* s.split(): the maximal runs of non-whitespace, in order.
Words(s) == WordsFrom(s, 1)

\* set(seq)
ToSet(seq) == { seq[i] : i \in 1..Len(seq) }

----------------------------------------------------------------------------
(* KnowledgeBase.load_articles                                             *)

\* Length of the separator literal of load_articles.
DelimLen == 50

\* Mutant: the separator literal one '=' short.
Delimiter_OneShort == Repeat("=", DelimLen - 1)

\* '==================================================' (bot_main.py:46)
Delimiter == Repeat("=", DelimLen)

\* The separator as the corpus files carry it: on a line of its own.
DelimiterLine == "\n" \o Delimiter \o "\n"

\* What can be wrong with the corpus file, by the exception open()/read()
\* raise for it; "" for a readable file.
FileError(f) ==
    CASE f.status = "ok"          -> ""
      [] f.status = "missing"     -> "FileNotFoundError"
      [] f.status = "denied"      -> "PermissionError"
      [] f.status = "undecodable" -> "UnicodeDecodeError"
      [] OTHER                    -> "OSError"

FileStatuses == {"ok", "missing", "denied", "undecodable", "io_error"}

\* [article.strip() for article in articles if article.strip()]
StripNonBlank(parts) ==
    LET kept == SelectSeq(parts, LAMBDA p : Strip(p) # "")
    IN  [i \in 1..Len(kept) |-> Strip(kept[i])]

\* The exceptions the except clause of load_articles catches.
LoadCaught == {"FileNotFoundError"}

\* Mutant: the segments are filtered but returned untrimmed.
load_articles_Untrimmed(f) ==
    LET exc == FileError(f)
    IN  IF exc = ""
        THEN [raised |-> "",
              value |-> SelectSeq(Split(f.text, Delimiter), LAMBDA p : Strip(p) # "")]
        ELSE IF exc \in LoadCaught
        THEN [raised |-> "", value |-> << >>]
        ELSE [raised |-> exc, value |-> << >>]

load_articles(f) ==
    LET exc == FileError(f)
    IN  IF exc = ""
        THEN [raised |-> "", value |-> StripNonBlank(Split(f.text, Delimiter))]
        ELSE IF exc \in LoadCaught
        THEN [raised |-> "", value |-> << >>]
        ELSE [raised |-> exc, value |-> << >>]

----------------------------------------------------------------------------
(* KnowledgeBase.calculate_relevance and search_articles                   *)

\* Words this short or shorter are ignored (len(word) > 3).
ShortWordLen == 3

\* Bonus for the whole query occurring in the article.
PhraseBonus == 100

RECURSIVE WordScore(_, _, _)
\* The loop over query_words: score += article_lower.count(word) * len(word)
\* for each word longer than ShortWordLen / minLen.
WordScore(words, article_lower, minLen) ==
    IF words = {} THEN 0
    ELSE LET word == CHOOSE w \in words : TRUE
         IN  (IF Len(word) > minLen
              THEN Count(article_lower, word) * Len(word) ELSE 0)
             + WordScore(words \ {word}, article_lower, minLen)

\* Mutant: the short-word filter off by one (len(word) >= 3).
calculate_relevance_ShortWords(article, query) ==
    LET query_words   == ToSet(Words(Lower(query)))
        article_lower == Lower(article)
    IN  WordScore(query_words, article_lower, ShortWordLen - 1)
        + (IF Contains(article_lower, Lower(query)) THEN PhraseBonus ELSE 0)

calculate_relevance(article, query) ==
    LET query_words   == ToSet(Words(Lower(query)))
        article_lower == Lower(article)
    IN  WordScore(query_words, article_lower, ShortWordLen)
        + (IF Contains(article_lower, Lower(query)) THEN PhraseBonus ELSE 0)

RECURSIVE InsertByScore(_, _)
\* sorted is ordered by score, highest first; the pair goes behind every
\* pair whose score is at least its own.
InsertByScore(sorted, pair) ==
    IF sorted = << >> THEN << pair >>
    ELSE IF Head(sorted).score >= pair.score
    THEN << Head(sorted) >> \o InsertByScore(Tail(sorted), pair)
    ELSE << pair >> \o sorted

RECURSIVE SortByScore_TiesReversed(_)
\* Mutant: an ascending sort that is then reversed, which turns the order of
\* the pairs of equal score around.
SortByScore_TiesReversed(pairs) ==
    IF pairs = << >> THEN << >>
    ELSE InsertByScore(SortByScore_TiesReversed(Tail(pairs)), Head(pairs))

RECURSIVE SortByScore(_)
\* list.sort(key=lambda x: x[1], reverse=True): a stable sort, so pairs of
\* equal score keep the order they were appended in.
SortByScore(pairs) ==
    IF pairs = << >> THEN << >>
    ELSE InsertByScore(SortByScore(SubSeq(pairs, 1, Len(pairs) - 1)),
                       pairs[Len(pairs)])

\* The (article, score) pairs of the articles that score above zero.
Relevant(articles, query) ==
    LET scored == [i \in 1..Len(articles) |->
                      [article |-> articles[i],
                       score |-> calculate_relevance(articles[i], query)]]
    IN  SelectSeq(scored, LAMBDA p : p.score > 0)

search_articles(f, query) ==
    LET loaded == load_articles(f)
    IN  IF loaded.raised # "" THEN loaded
        ELSE LET ranked == SortByScore(Relevant(loaded.value, query))
             IN  [raised |-> "",
                  value |-> [i \in 1..Len(ranked) |-> ranked[i].article]]

----------------------------------------------------------------------------
(* Python values that an answer or a script can be.                        *)

PyNone == [t |-> "None", s |-> "", n |-> 0]

PyStr(x) == [t |-> "str", s |-> x, n |-> 0]

PyInt(k) == [t |-> "int", s |-> "", n |-> k]

\* bool(v): None, '', 0, an empty list and an empty dict are false.
Truthy(v) ==
    CASE v.t = "None" -> FALSE
      [] v.t = "str"  -> v.s # ""
      [] OTHER        -> v.n # 0

----------------------------------------------------------------------------
(* KnowledgeBase.extract_script and the extractors of ResponseGenerator.   *)

\* lines[a:b] of a 1-based sequence, 0-based bounds as in Python.
Slice(seq, a, b) == SubSeq(seq, a + 1, Min(b, Len(seq)))

\* any(keyword in line for keyword in keywords)
AnyIn(keywords, line) == \E k \in keywords : Contains(line, k)

\* line.startswith('---') or '========' in line
IsTerminator(line) == StartsWith(line, "---") \/ Contains(line, "========")

\* '💬' (written "@"), 'Что сказать', 'скрипт', 'речь оператора'
ScriptMarkers == { "@", "Chto skazat", "skript", "rech operatora" }

\* 'Действия оператора', 'Консультация'
AdviceMarkers == { "Deystviya operatora", "Konsultatsiya" }

\* 'СОДЕРЖАНИЕ:', 'Общая информация'
ContentMarkers == { "SODERZHANIE:", "Obshchaya informatsiya" }

\* 'МО', 'Поиск': line prefixes left out of the content section.
SkippedPrefixes == { "MO", "Poisk" }

\* Most lines of a script, of a marked content section, of the meaningful
\* lines; the lines looked at behind an advice marker.
MaxScriptLines == 10

MaxContentLines == 15

MaxMeaningfulLines == 10

AdviceWindow == 5

\* A meaningful line is longer than this once trimmed.
MinMeaningfulLen == 10

\* article[:500] + "..."
RawPrefixLen == 500

RECURSIVE SectionLines(_, _, _, _, _)
\* The first loop of extract_script and of extract_main_content: the
\* trimmed non-empty lines behind a marker line, up to the first terminator;
\* a later marker line is skipped, lines with a skipped prefix are left out.
SectionLines(lines, i, markers, skipped, inside) ==
    IF i > Len(lines) THEN << >>
    ELSE LET line == lines[i]
         IN  IF AnyIn(markers, line)
             THEN SectionLines(lines, i + 1, markers, skipped, TRUE)
             ELSE IF inside /\ Strip(line) # ""
             THEN IF IsTerminator(line) THEN << >>
                  ELSE (IF \E p \in skipped : StartsWith(line, p)
                        THEN << >> ELSE << Strip(line) >>)
                       \o SectionLines(lines, i + 1, markers, skipped, inside)
             ELSE SectionLines(lines, i + 1, markers, skipped, inside)

\* The lines behind the advice marker at (1-based) line i:
\* lines[j] for j in range(i+1, min(i+6, len(lines))), non-empty, no '---'.
AdviceLines(lines, i) ==
    LET window == Slice(lines, i, i + AdviceWindow)
        kept   == SelectSeq(window, LAMBDA l : Strip(l) # "" /\ ~StartsWith(l, "---"))
    IN  [k \in 1..Len(kept) |-> Strip(kept[k])]

\* Mutant: without a script section there is no script; the advice markers
\* are not looked for.
extract_script_NoAdvice(article) ==
    LET lines        == Split(article, "\n")
        script_lines == SectionLines(lines, 1, ScriptMarkers, {}, FALSE)
    IN  IF script_lines # << >>
        THEN PyStr(Join(Take(script_lines, MaxScriptLines), "\n"))
        ELSE PyNone

\* A script is None or a string.
extract_script(article) ==
    LET lines        == Split(article, "\n")
        script_lines == SectionLines(lines, 1, ScriptMarkers, {}, FALSE)
        advised      == { i \in 1..Len(lines) :
                            /\ AnyIn(AdviceMarkers, lines[i])
                            /\ AdviceLines(lines, i) # << >> }
    IN  IF script_lines # << >>
        THEN PyStr(Join(Take(script_lines, MaxScriptLines), "\n"))
        ELSE IF advised # {}
        THEN PyStr(Join(AdviceLines(lines, CHOOSE i \in advised : \A j \in advised : i <= j),
                        "\n"))
        ELSE PyNone

RECURSIVE MeaningfulLines_NoCap(_, _, _)
\* Mutant: the collection does not stop at the cap.
MeaningfulLines_NoCap(lines, i, n) ==
    IF i > Len(lines) THEN << >>
    ELSE LET line == lines[i]
             good == /\ Strip(line) # ""
                     /\ Len(Strip(line)) > MinMeaningfulLen
                     /\ ~StartsWith(line, "===")
         IN  (IF good THEN << Strip(line) >> ELSE << >>)
             \o MeaningfulLines_NoCap(lines, i + 1, n)

RECURSIVE MeaningfulLines(_, _, _)
\* The second loop of extract_main_content; n lines are collected so far.
MeaningfulLines(lines, i, n) ==
    IF i > Len(lines) THEN << >>
    ELSE LET line == lines[i]
             good == /\ Strip(line) # ""
                     /\ Len(Strip(line)) > MinMeaningfulLen
                     /\ ~StartsWith(line, "===")
             m    == IF good THEN n + 1 ELSE n
         IN  (IF good THEN << Strip(line) >> ELSE << >>)
             \o (IF m >= MaxMeaningfulLines THEN << >>
                 ELSE MeaningfulLines(lines, i + 1, m))

\* Mutant: the lines of the content section are not cut to the cap.
extract_main_content_Uncapped(article) ==
    LET lines         == Split(article, "\n")
        content_lines == SectionLines(lines, 1, ContentMarkers, SkippedPrefixes, FALSE)
        meaningful    == MeaningfulLines(lines, 1, 0)
    IN  IF content_lines # << >>
        THEN Join(content_lines, "\n")
        ELSE IF meaningful # << >> THEN Join(meaningful, "\n")
        ELSE Take(article, RawPrefixLen) \o "..."

extract_main_content(article) ==
    LET lines         == Split(article, "\n")
        content_lines == SectionLines(lines, 1, ContentMarkers, SkippedPrefixes, FALSE)
        meaningful    == MeaningfulLines(lines, 1, 0)
    IN  IF content_lines # << >>
        THEN Join(Take(content_lines, MaxContentLines), "\n")
        ELSE IF meaningful # << >> THEN Join(meaningful, "\n")
        ELSE Take(article, RawPrefixLen) \o "..."

\* line.split(':', 1)[1].strip()
AfterColon(line) == Strip(Drop(line, Find(line, ":", 1)))

\* "Статья из базы знаний"
DefaultTitle == "Statya iz bazy znaniy"

\* Mutant: the primary marker is not required to come with a colon.
IsTitleLine_NoColon(line) ==
    \/ Contains(line, "STATYA")
    \/ Contains(line, "Zagolovok:")

\* The title lines: 'СТАТЬЯ' with a colon, or 'Заголовок:'.
IsTitleLine(line) ==
    \/ Contains(line, "STATYA") /\ Contains(line, ":")
    \/ Contains(line, "Zagolovok:")

get_article_title(article) ==
    LET lines  == Split(article, "\n")
        titled == { i \in 1..Len(lines) : IsTitleLine(lines[i]) }
    IN  IF titled = {} THEN DefaultTitle
        ELSE AfterColon(lines[CHOOSE i \in titled : \A j \in titled : i <= j])

\* 'можно ли', 'возможно ли', 'есть ли'
DirectQuestions == { "mozhno li", "vozmozhno li", "est li" }

\* 'да', 'нет', 'можно', 'нельзя', 'нужно', 'не нужно'
DirectKeywords == { "da", "net", "mozhno", "nelzya", "nuzhno", "ne nuzhno" }

\* Mutant: a yes/no question counts as answered whatever the content holds.
is_direct_answer_QuestionOnly(q, content) == AnyIn(DirectQuestions, Lower(q))

is_direct_answer(q, content) ==
    IF AnyIn(DirectQuestions, Lower(q))
    THEN AnyIn(DirectKeywords, Lower(content))
    ELSE FALSE

----------------------------------------------------------------------------
(* ResponseGenerator.ask_huggingface, enhance_with_ai, generate_response   *)

\* What the POST to the generative service can end in.  A reply is
\* [kind, status, body, first]: body describes the decoded JSON value
\* (for a str its text, for an int its value, for a list or a dict its
\* length, for a dict also its repr in s) and first the first element of a
\* non-empty list: whether it is a dict, whether it has 'generated_text',
\* and that value.
NoElement == [isdict |-> FALSE, has_text |-> FALSE, text |-> PyNone]

Reply(kind, status, body, first) ==
    [kind |-> kind, status |-> status, body |-> body, first |-> first]

Failure(kind) == Reply(kind, 0, PyNone, NoElement)

\* No POST has been answered.
NoReply == Reply("none", 0, PyNone, NoElement)

JsonList(first) == Reply("json", 200, [t |-> "list", s |-> "", n |-> 1], first)

JsonValue(body) == Reply("json", 200, body, NoElement)

Generated(v) == [isdict |-> TRUE, has_text |-> TRUE, text |-> v]

Replies ==
    { Failure("ClientConnectorError"),       \* the connection fails
      Failure("TimeoutError"),               \* no reply within timeout=30
      Reply("status", 500, PyNone, NoElement),
      Reply("status", 503, PyNone, NoElement),
      Failure("ContentTypeError"),           \* status 200, body is not JSON
      JsonList(Generated(PyStr("Oplata cherez bank"))),
      JsonList(Generated(PyStr(""))),
      JsonList(Generated(PyNone)),
      JsonList(Generated(PyInt(42))),
      JsonList([isdict |-> TRUE, has_text |-> FALSE, text |-> PyNone]),
      JsonList([isdict |-> FALSE, has_text |-> FALSE, text |-> PyNone]),
      JsonValue([t |-> "list", s |-> "", n |-> 0]),
      JsonValue([t |-> "dict", s |-> "{'error': 'Model is loading'}", n |-> 1]),
      JsonValue([t |-> "str", s |-> "", n |-> 0]),
      JsonValue(PyNone) }

\* str(result)
StrOf(v) ==
    CASE v.t = "str"  -> v.s
      [] v.t = "None" -> "None"
      [] v.t = "int"  -> ToString(v.n)
      [] v.t = "list" /\ v.n = 0 -> "[]"
      [] v.t = "dict" /\ v.n = 0 -> "{}"
      [] OTHER        -> v.s

\* 'Не удалось сгенерировать ответ'
NotGenerated == "Ne udalos sgenerirovat otvet"

\* Mutant: the status of the response is not looked at.
PostAndDecode_AnyStatus(rep) ==
    IF rep.kind \in {"status", "json"}
    THEN IF rep.body.t = "list" /\ rep.body.n > 0
         THEN IF ~rep.first.isdict
              THEN [exc |-> "AttributeError", value |-> PyNone]
              ELSE IF rep.first.has_text
              THEN [exc |-> "", value |-> rep.first.text]
              ELSE [exc |-> "", value |-> PyStr(NotGenerated)]
         ELSE [exc |-> "", value |-> PyStr(StrOf(rep.body))]
    ELSE [exc |-> rep.kind, value |-> PyNone]

\* The body of the try block of ask_huggingface: [exc, value], exc the
\* exception it ends in ("" for none).
PostAndDecode(rep) ==
    CASE rep.kind = "status" -> [exc |-> "", value |-> PyNone]
      [] rep.kind = "json" ->
            IF rep.body.t = "list" /\ rep.body.n > 0
            THEN IF ~rep.first.isdict
                 THEN [exc |-> "AttributeError", value |-> PyNone]
                 ELSE IF rep.first.has_text
                 THEN [exc |-> "", value |-> rep.first.text]
                 ELSE [exc |-> "", value |-> PyStr(NotGenerated)]
            ELSE [exc |-> "", value |-> PyStr(StrOf(rep.body))]
      [] OTHER -> [exc |-> rep.kind, value |-> PyNone]

\* The exceptions 'except Exception' catches: every one that the POST, the
\* timeout and the decoding raise derives from Exception.
ExceptionClasses ==
    { "ClientConnectorError", "TimeoutError", "ContentTypeError", "AttributeError" }

\* Mutant: only the transport errors of aiohttp are caught
\* (except aiohttp.ClientError).
ask_huggingface_ClientErrorOnly(rep) ==
    LET r == PostAndDecode(rep)
    IN  IF r.exc \in { "ClientConnectorError", "ContentTypeError" }
        THEN [exc |-> "", value |-> PyNone]
        ELSE r

\* The outcome of ask_huggingface when the service answers its POST with
\* reply: [exc, value].
ask_huggingface(rep) ==
    LET r == PostAndDecode(rep)
    IN  IF r.exc \in ExceptionClasses
        THEN [exc |-> "", value |-> PyNone]
        ELSE r

\* context[:800]
ContextLen == 800

\* The prompt of enhance_with_ai ('Вопрос:', 'Контекст:', 'Дай точный и
\* краткий ответ на вопрос на основе контекста.', 'Если в контексте нет
\* информации - верни None.', 'Ответ:').
EnhancePrompt(q, context) ==
    "\n            Vopros: " \o q
    \o "\n            Kontekst: " \o Take(context, ContextLen)
    \o "\n            \n            Day tochnyy i kratkiy otvet na vopros na osnove konteksta. "
    \o "\n            Esli v kontekste net informatsii - verni None."
    \o "\n            Otvet:\n            "

\* enhance_with_ai once the service has answered: what ask_huggingface
\* returns, None for whatever it raises.
enhance_with_ai(rep) ==
    LET r == ask_huggingface(rep)
    IN  IF r.exc # "" THEN [exc |-> "", value |-> PyNone] ELSE r

\* "Нейросеть"
NeuralSource == "Neyroset"

Triple(answer, script, source) ==
    [raised |-> "", answer |-> answer, script |-> script, source |-> source]

Raise(exc) == [raised |-> exc, answer |-> PyNone, script |-> PyNone, source |-> ""]

NoFrame == [mode |-> "none", content |-> "", script |-> PyNone, title |-> ""]

\* No second call runs beside the current one. Of a second call: its
\* position, its question, what it posted, its locals and what it returned.
NoCall ==
    [pc |-> "idle", question |-> "", calls |-> << >>, frame |-> NoFrame,
     ret |-> Raise("")]

\* accuracy_stats = {"total": 0, "correct": 0}, no other file, no update,
\* no second call and no accuracy keyboard in the chat.
OthersInit ==
    /\ disk = NoOtherFiles
    /\ accuracy_stats = [total |-> 0, correct |-> 0]
    /\ writer = NoWriter
    /\ pending = NoCall
    /\ keyboards = << >>

\* generate_response(question) up to its first await or its return.
GenerateResponse(q) ==
    /\ pc = "idle"
    /\ question' = q
    /\ LET found == search_articles(file, q)
       IN  IF found.raised # ""
           THEN /\ pc' = "done"
                /\ ret' = Raise(found.raised)
                /\ calls' = << >>
                /\ frame' = NoFrame
           ELSE IF found.value # << >>
           THEN LET best_article == found.value[1]
                    content == extract_main_content(best_article)
                    script  == extract_script(best_article)
                    title   == get_article_title(best_article)
                IN  IF is_direct_answer(q, content)
                    THEN /\ pc' = "done"
                         /\ ret' = Triple(PyStr(content), script, title)
                         /\ calls' = << >>
                         /\ frame' = NoFrame
                    ELSE /\ pc' = "awaiting"
                         /\ ret' = ret
                         /\ calls' = << EnhancePrompt(q, content) >>
                         /\ frame' = [mode |-> "enhance", content |-> content,
                                      script |-> script, title |-> title]
           ELSE /\ pc' = "awaiting"
                /\ ret' = ret
                /\ calls' = << q >>
                /\ frame' = [NoFrame EXCEPT !.mode = "fallback"]
    /\ UNCHANGED <<file, segs, reply, others>>

\* Mutant: the enhanced response is returned even when it is empty.
Resume_NoFallback(fr, rep) ==
    IF fr.mode = "enhance"
    THEN Triple(enhance_with_ai(rep).value, fr.script, fr.title)
    ELSE Triple(ask_huggingface(rep).value, PyNone, NeuralSource)

\* The rest of generate_response, from the reply of the service on.
Resume(fr, rep) ==
    IF fr.mode = "enhance"
    THEN LET enhanced_response == enhance_with_ai(rep)
         IN  IF enhanced_response.exc # "" THEN Raise(enhanced_response.exc)
             ELSE IF Truthy(enhanced_response.value)
             THEN Triple(enhanced_response.value, fr.script, fr.title)
             ELSE Triple(PyStr(fr.content), fr.script, fr.title)
    ELSE LET ai_response == ask_huggingface(rep)
         IN  IF ai_response.exc # "" THEN Raise(ai_response.exc)
             ELSE Triple(ai_response.value, PyNone, NeuralSource)

\* The service answers (or fails) and the suspended call runs to its return.
ServiceReplies(r) ==
    /\ pc = "awaiting"
    /\ pc' = "done"
    /\ reply' = r
    /\ ret' = Resume(frame, r)
    /\ frame' = NoFrame
    /\ UNCHANGED <<file, segs, question, calls, others>>

\* The call has returned to its caller, which has taken the triple; the
\* next question can come.
HandlerReturns ==
    /\ pc = "done"
    /\ pc' = "idle"
    /\ question' = ""
    /\ ret' = Raise("")
    /\ calls' = << >>
    /\ reply' = NoReply
    /\ UNCHANGED <<file, segs, frame, others>>

----------------------------------------------------------------------------
(* SpecParse: corpus texts joined from segments, then load_articles.       *)

\* Segments a corpus is joined from: blank ones, padded ones, ones that
\* carry '=' at either end, and runs of '=' around the separator's length.
SegPool ==
    { "", " \n", "a", " b\n", "a=", "=b",
      "a" \o Repeat("=", DelimLen - 1) \o "b",
      Repeat("=", DelimLen - 1),
      "a" \o Repeat("=", DelimLen + 1) \o "b" }

SegSeqs == UNION { [1..n -> SegPool] : n \in 1..MaxSegs }

InitParse ==
    /\ \/ \E ss \in SegSeqs :
            /\ segs = ss
            /\ file = [status |-> "ok", text |-> Join(ss, Delimiter)]
       \/ \E st \in FileStatuses \ {"ok"} :
            /\ segs = << >>
            /\ file = [status |-> st, text |-> ""]
    /\ question = ""
    /\ pc = "idle"
    /\ ret = [raised |-> "", value |-> << >>]
    /\ calls = << >>
    /\ reply = NoReply
    /\ frame = NoFrame
    /\ OthersInit

\* A caller (cmd_start, show_accuracy, search_articles) loads the corpus.
LoadArticles ==
    /\ pc = "idle"
    /\ pc' = "loaded"
    /\ ret' = load_articles(file)
    /\ UNCHANGED <<file, segs, question, calls, reply, frame, others>>

NextParse == LoadArticles

SpecParse == InitParse /\ [][NextParse]_vars

----------------------------------------------------------------------------
(* Spec: a corpus on disk and the questions asked of it.                   *)

\* Lines of the articles: a title line, the content marker, two content
\* lines (one with a direct keyword), a script marker and a terminator.
LinePool ==
    { "STATYA 1: Oplata scheta",
      "SODERZHANIE:",
      "Oplatit mozhno cherez bank",
      "Srok oplaty 10 chisla",
      "Chto skazat klientu",
      "---" }

Articles == { Join(ls, "\n") : ls \in UNION { [1..n -> LinePool] : n \in 1..MaxLines } }

\* Three written-out articles: a full one (title, content section, script),
\* one that shares a word with the questions about payment, and one with a
\* secondary title line only.
FullArticle ==
    "STATYA 1: Oplata scheta\nSODERZHANIE:\nOplatit mozhno cherez bank\n---\n"
    \o "Chto skazat klientu\nOplata scheta cherez bank\n---"

OtherArticle == "STATYA 2: Pokazaniya\nSODERZHANIE:\nPokazaniya do oplaty scheta"

ThirdArticle == "Zagolovok: Pogoda\nPogoda na zavtra: oplata ne nuzhna"

\* The corpora: every drawn article alone, and the written-out articles
\* together, in several orders.
Corpora ==
    { << a >> : a \in Articles }
    \cup { << OtherArticle, FullArticle >>, << FullArticle, OtherArticle >>,
           << ThirdArticle, OtherArticle, FullArticle >>,
           << OtherArticle, ThirdArticle >> }

\* A question the corpus answers, a yes/no question, one foreign to the
\* corpus and one that is only punctuation.
Questions == { "oplata scheta", "mozhno li oplatit", "pogoda zavtra", "---" }

Init ==
    /\ \/ \E ss \in Corpora :
            /\ segs = ss
            /\ file = [status |-> "ok", text |-> Join(ss, DelimiterLine)]
       \/ \E st \in FileStatuses \ {"ok"} :
            /\ segs = << >>
            /\ file = [status |-> st, text |-> ""]
    /\ question = ""
    /\ pc = "idle"
    /\ ret = Raise("")
    /\ calls = << >>
    /\ reply = NoReply
    /\ frame = NoFrame
    /\ OthersInit

Next ==
    \/ \E q \in Questions : GenerateResponse(q)
    \/ \E r \in Replies : ServiceReplies(r)
    \/ HandlerReturns

Spec == Init /\ [][Next]_vars

----------------------------------------------------------------------------
(* Claims about load_articles (SpecParse).                                 *)

Loaded == pc = "loaded" /\ file.status = "ok"

\* s without its leading and trailing whitespace: from its first to its last
\* character that is not whitespace.
Trimmed(s) ==
    LET solid == { i \in 1..Len(s) : ~IsSpace(Ch(s, i)) }
    IN  IF solid = {} THEN ""
        ELSE SubSeq(s, CHOOSE i \in solid : \A j \in solid : i <= j,
                       CHOOSE i \in solid : \A j \in solid : i >= j)

RECURSIVE TrimmedNonBlank(_)
\* The strings of a sequence, blank ones dropped, the others trimmed, in order.
TrimmedNonBlank(parts) ==
    IF parts = << >> THEN << >>
    ELSE IF Trimmed(Head(parts)) = "" THEN TrimmedNonBlank(Tail(parts))
    ELSE << Trimmed(Head(parts)) >> \o TrimmedNonBlank(Tail(parts))

\* No separator can start inside a segment: no segment holds the separator,
\* and no segment that is followed by a separator ends with '='.
CleanlyJoined ==
    \A i \in 1..Len(segs) :
        /\ ~Contains(segs[i], Delimiter)
        /\ i < Len(segs) => ~EndsWith(segs[i], "=")

\* C1 as claimed: whatever the segments are (here even: whatever segments
\* that do not hold the separator themselves), load_articles returns the
\* non-blank segments, trimmed, in corpus order.
C1_AnySegments ==
    (Loaded /\ \A i \in 1..Len(segs) : ~Contains(segs[i], Delimiter))
        => ret.value = TrimmedNonBlank(segs)

\* C1 amended: when no segment contains the separator and no segment but the
\* last ends with '=', load_articles returns exactly the non-blank segments,
\* each trimmed, in corpus order; blank segments are dropped.
C1_CleanSegments == (Loaded /\ CleanlyJoined) => ret.value = TrimmedNonBlank(segs)

\* C1's case: three segments, a blank one among them, one starting with '=',
\* and the two non-blank ones returned.
C1_Witness ==
    /\ Loaded /\ CleanlyJoined
    /\ Len(segs) = 3
    /\ \E i \in 1..3 : Strip(segs[i]) = ""
    /\ \E i \in 1..3 : StartsWith(segs[i], "=")
    /\ Len(ret.value) = 2

\* Start positions of the maximal runs of '=' in s.
RunStarts(s) ==
    { i \in 1..Len(s) : Ch(s, i) = "=" /\ (i = 1 \/ Ch(s, i - 1) # "=") }

\* Length of the maximal run of '=' that starts at i.
RunLen(s, i) ==
    LET stops == { j \in i..Len(s) : Ch(s, j) # "=" }
    IN  IF stops = {} THEN Len(s) - i + 1
        ELSE (CHOOSE j \in stops : \A k \in stops : j <= k) - i

RECURSIVE CutAt(_, _, _)
\* The pieces of s from position from on, cut at the DelimLen-long
\* boundaries that start at the given positions.
CutAt(s, starts, from) ==
    LET later == { i \in starts : i >= from }
    IN  IF later = {} THEN << SubSeq(s, from, Len(s)) >>
        ELSE LET i == CHOOSE x \in later : \A y \in later : x <= y
             IN  << SubSeq(s, from, i - 1) >> \o CutAt(s, starts, i + DelimLen)

\* Boundaries when only a run of exactly DelimLen '=' is one.
ExactRunBoundaries(s) == { i \in RunStarts(s) : RunLen(s, i) = DelimLen }

\* Boundaries when a run of n '=' holds n \div DelimLen of them, back to
\* back from the start of the run.
LongRunBoundaries(s) ==
    UNION { { i + DelimLen * k : k \in 0..((RunLen(s, i) \div DelimLen) - 1) }
            : i \in RunStarts(s) }

\* C2 as claimed: the articles are the pieces between the runs of exactly 50
\* '='; a shorter or a longer run is no boundary.
C2_OnlyExactRuns ==
    Loaded => ret.value = TrimmedNonBlank(CutAt(file.text, ExactRunBoundaries(file.text), 1))

\* C2 amended: a run of fewer than 50 '=' is never a boundary; a run of
\* n >= 50 '=' is n div 50 boundaries taken from its start, and its
\* n mod 50 remaining '=' open the following segment.
C2_RunsOfFiftyOrMore ==
    Loaded => ret.value = TrimmedNonBlank(CutAt(file.text, LongRunBoundaries(file.text), 1))

\* C2's case: the text holds a run shorter than the separator, which cuts
\* nothing, and a longer one, which cuts; the corpus has been read.
C2_Witness ==
    /\ Loaded
    /\ \E i \in RunStarts(file.text) : RunLen(file.text, i) = DelimLen - 1
    /\ \E i \in RunStarts(file.text) : RunLen(file.text, i) = DelimLen + 1
    /\ Cardinality(RunStarts(file.text)) = 2
    /\ Len(ret.value) = 2

\* C3 as claimed: whatever is wrong with the corpus file, load_articles
\* raises nothing and returns the empty sequence.
C3_NeverRaises ==
    (pc = "loaded" /\ file.status # "ok") => (ret.raised = "" /\ ret.value = << >>)


----------------------------------------------------------------------------
(* SpecScore: one article, one query, calculate_relevance.                 *)

\* Words of the queries: an empty one (a doubled or an outer blank), one of
\* the ignored length, one just longer, one in mixed case and one that
\* overlaps itself.
QueryWords == { "", "aaa", "aaaa", "AAaa", "abab" }

ArticleWords == { "aaa", "aaaaa", "AAAA", "ababab", "b" }

Queries == { Join(ws, " ") : ws \in UNION { [1..n -> QueryWords] : n \in 1..MaxQueryWords } }

ScoredArticles ==
    { Join(ws, " ") : ws \in UNION { [1..n -> ArticleWords] : n \in 0..MaxArticleWords } }

InitScore ==
    /\ \E a \in ScoredArticles :
            /\ segs = << a >>
            /\ file = [status |-> "ok", text |-> a]
    /\ question \in Queries
    /\ pc = "idle"
    /\ ret = [raised |-> "", value |-> 0]
    /\ calls = << >>
    /\ reply = NoReply
    /\ frame = NoFrame
    /\ OthersInit

\* search_articles scores one article against the query.
CalculateRelevance ==
    /\ pc = "idle"
    /\ pc' = "scored"
    /\ ret' = [raised |-> "", value |-> calculate_relevance(segs[1], question)]
    /\ UNCHANGED <<file, segs, question, calls, reply, frame, others>>

NextScore == CalculateRelevance

SpecScore == InitScore /\ [][NextScore]_vars

----------------------------------------------------------------------------
(* SpecRank: a corpus of articles, one query, search_articles.             *)

RankedArticles == { "aaaa b", "b aaaa", "aaaa", "aaaa aaaa", "abab", "b" }

RankQueries == { "aaaa", "b aaaa", "abab b", "zzzz" }

InitRank ==
    /\ \/ \E ss \in UNION { [1..n -> RankedArticles] : n \in 0..MaxArticles } :
            /\ segs = ss
            /\ file = [status |-> "ok", text |-> Join(ss, DelimiterLine)]
       \/ \E st \in FileStatuses \ {"ok"} :
            /\ segs = << >>
            /\ file = [status |-> st, text |-> ""]
    /\ question \in RankQueries
    /\ pc = "idle"
    /\ ret = [raised |-> "", value |-> << >>]
    /\ calls = << >>
    /\ reply = NoReply
    /\ frame = NoFrame
    /\ OthersInit

\* generate_response searches the corpus for the question.
SearchArticles ==
    /\ pc = "idle"
    /\ pc' = "ranked"
    /\ ret' = search_articles(file, question)
    /\ UNCHANGED <<file, segs, question, calls, reply, frame, others>>

NextRank == SearchArticles

SpecRank == InitRank /\ [][NextRank]_vars


----------------------------------------------------------------------------
(* Claims about calculate_relevance (SpecScore).                           *)

\* The distinct whitespace-separated tokens of s: its maximal substrings
\* free of whitespace.
Tokens(s) ==
    { SubSeq(s, i, j) : <<i, j>> \in
        { p \in (1..Len(s)) \X (1..Len(s)) :
            /\ p[1] <= p[2]
            /\ \A k \in p[1]..p[2] : ~IsSpace(Ch(s, k))
            /\ (p[1] = 1 \/ IsSpace(Ch(s, p[1] - 1)))
            /\ (p[2] = Len(s) \/ IsSpace(Ch(s, p[2] + 1))) } }

\* Every place at which tok occurs in text, overlapping places included.
PlacesOf(tok, text) == Cardinality(Occurrences(text, tok))

\* The most occurrences of tok in text no two of which overlap.
DisjointPlacesOf(tok, text) ==
    LET disjoint(P) == \A i, j \in P : i # j => (i + Len(tok) <= j \/ j + Len(tok) <= i)
        packs == { P \in SUBSET Occurrences(text, tok) : disjoint(P) }
    IN  CHOOSE n \in 0..Len(text) :
            /\ \E P \in packs : Cardinality(P) = n
            /\ \A P \in packs : Cardinality(P) <= n

RECURSIVE WeightAllPlaces(_, _)
\* Over the tokens longer than 3: every occurrence, times the token length.
WeightAllPlaces(toks, text) ==
    IF toks = {} THEN 0
    ELSE LET t == CHOOSE x \in toks : TRUE
         IN  (IF Len(t) > 3 THEN PlacesOf(t, text) * Len(t) ELSE 0)
             + WeightAllPlaces(toks \ {t}, text)

RECURSIVE WeightDisjointPlaces(_, _)
\* Over the tokens longer than 3: the non-overlapping occurrences, times the
\* token length.
WeightDisjointPlaces(toks, text) ==
    IF toks = {} THEN 0
    ELSE LET t == CHOOSE x \in toks : TRUE
         IN  (IF Len(t) > 3 THEN DisjointPlacesOf(t, text) * Len(t) ELSE 0)
             + WeightDisjointPlaces(toks \ {t}, text)

WholeQueryBonus ==
    IF Contains(Lower(segs[1]), Lower(question)) THEN 100 ELSE 0

\* C4 as claimed: the score is the sum over the distinct tokens longer than 3
\* of (occurrences of the token as a substring of the lower-cased article)
\* times (token length), plus 100 iff the lower-cased query is a substring.
C4_EveryOccurrence ==
    pc = "scored" =>
        ret.value = WeightAllPlaces(Tokens(Lower(question)), Lower(segs[1]))
                    + WholeQueryBonus

\* C4 amended: as claimed, but the occurrences of a token are counted without
\* overlap (left to right, the next one sought after the end of the previous
\* one), so a token that overlaps itself in the article counts once per
\* disjoint occurrence; the score is a non-negative integer.
C4_DisjointOccurrences ==
    pc = "scored" =>
        /\ ret.value = WeightDisjointPlaces(Tokens(Lower(question)), Lower(segs[1]))
                       + WholeQueryBonus
        /\ ret.value \in Nat

\* C4's case: a query of two tokens that are equal once lower-cased, found
\* twice in the article, with the whole query not a substring of it.
C4_Witness ==
    /\ pc = "scored"
    /\ question = "aaaa AAaa"
    /\ segs[1] = "AAAA aaa"
    /\ ret.value = 4

\* C4's case: the token overlaps itself in the article.
C4_OverlapWitness ==
    /\ pc = "scored"
    /\ question = "abab"
    /\ segs[1] = "ababab"
    /\ ret.value = 104

----------------------------------------------------------------------------
(* Claims about search_articles (SpecRank).                                *)

Ranked == pc = "ranked" /\ file.status = "ok"

\* The corpus order of the articles (the segments of SpecRank are trimmed
\* and free of '=').
ScoreOf(i) == calculate_relevance(segs[i], question)

Scoring == { i \in 1..Len(segs) : ScoreOf(i) > 0 }

\* The place in the ranking of the i-th article of the corpus: behind every
\* article that scores higher, and behind every earlier one that scores the
\* same.
PlaceOf(i) ==
    1 + Cardinality({ j \in Scoring :
                        ScoreOf(j) > ScoreOf(i) \/ (ScoreOf(j) = ScoreOf(i) /\ j < i) })

\* C5: search_articles returns exactly the articles that score above zero,
\* by score descending, articles of equal score in corpus order; it returns
\* nothing when no article scores above zero.
C5_RankedByScore ==
    Ranked =>
        /\ Len(ret.value) = Cardinality(Scoring)
        /\ \A i \in Scoring : ret.value[PlaceOf(i)] = segs[i]

\* C5's case: three different articles that all score, the second the
\* highest, the first and the third the same: the second is ranked first and
\* the other two keep their corpus order.
C5_Witness ==
    /\ Ranked
    /\ Len(segs) = 3
    /\ ScoreOf(2) > ScoreOf(1) /\ ScoreOf(1) = ScoreOf(3) /\ ScoreOf(1) > 0
    /\ segs[1] # segs[3]
    /\ ret.value = << segs[2], segs[1], segs[3] >>

\* C5's case: an article that scores nothing is left out.
C5_ZeroWitness ==
    /\ Ranked
    /\ Len(segs) = 3
    /\ ScoreOf(1) = 0 /\ ScoreOf(2) > 0 /\ ScoreOf(3) > ScoreOf(2)
    /\ ret.value = << segs[3], segs[2] >>

----------------------------------------------------------------------------
(* Claims about generate_response (Spec).                                  *)

\* The ranking the current call works on.
RankedNow == search_articles(file, question)

Called == pc \in {"awaiting", "done"} /\ RankedNow.raised = ""

ArticleSelected == Called /\ RankedNow.value # << >>

NoArticleSelected == Called /\ RankedNow.value = << >>

BestArticle == RankedNow.value[1]

\* The question asks whether something is possible or exists, and the
\* content of the selected article holds a word of verdict.
DirectlyAnswered ==
    /\ \E m \in { "mozhno li", "vozmozhno li", "est li" } : Contains(Lower(question), m)
    /\ \E k \in { "da", "net", "mozhno", "nelzya", "nuzhno", "ne nuzhno" } :
            Contains(Lower(extract_main_content(BestArticle)), k)

\* The call to the service failed: no connection, no reply in time, a status
\* other than 200, a body that is not JSON, or a list headed by something
\* that is not an object.
CallFailed(r) ==
    \/ r.kind # "json"
    \/ r.body.t = "list" /\ r.body.n > 0 /\ ~r.first.isdict

\* What the service generated: the generated_text of the object heading the
\* list (a fixed text when it has none), or the JSON value as a string when
\* the body is not a non-empty list; None when the call failed.
ServiceText(r) ==
    IF CallFailed(r) THEN PyNone
    ELSE IF r.body.t = "list" /\ r.body.n > 0
    THEN IF r.first.has_text THEN r.first.text
         ELSE PyStr("Ne udalos sgenerirovat otvet")
    ELSE PyStr(StrOf(r.body))

\* C6 as claimed: whenever an article scores above zero, the triple is
\* exactly (content, script, title) of the top-ranked article, never text of
\* the generative service.
C6_AlwaysExtracted ==
    (pc = "done" /\ ArticleSelected) =>
        ret = Triple(PyStr(extract_main_content(BestArticle)),
                     extract_script(BestArticle),
                     get_article_title(BestArticle))

\* C6 amended: whenever an article scores above zero, the triple is
\* (answer, script, title) with script and title exactly what the extractors
\* produce from the top-ranked article; the answer is the extracted content
\* when the question is directly answered by it or when the service's
\* enhancement failed or is empty, and otherwise it is the value the
\* generative service returned for the enhancement prompt.
C6_ExtractedOrEnhanced ==
    (pc = "done" /\ ArticleSelected) =>
        /\ ret.raised = ""
        /\ ret.script = extract_script(BestArticle)
        /\ ret.source = get_article_title(BestArticle)
        /\ ret.answer = IF DirectlyAnswered \/ ~Truthy(ServiceText(reply))
                        THEN PyStr(extract_main_content(BestArticle))
                        ELSE ServiceText(reply)

\* C6's case: the top-ranked article is the last of a corpus of three, it
\* has a script and a title, and the answer is the service's text.
C6_Witness ==
    /\ pc = "done" /\ ArticleSelected
    /\ Len(segs) = 3 /\ BestArticle = segs[3]
    /\ ret.answer = PyStr("Oplata cherez bank")
    /\ ret.script = PyStr("Oplata scheta cherez bank")
    /\ ret.source = "Oplata scheta"

\* C7 as claimed: a call in which some article scores above zero posts
\* nothing to the generative service.
C7_NoCallWhenSelected == ArticleSelected => calls = << >>

\* C7 amended: generate_response posts nothing exactly when some article
\* scores above zero and the question is directly answered by the extracted
\* content; in every other call exactly one request is posted: the
\* enhancement prompt when an article was selected, the raw question when
\* the ranking is empty.
C7_NoCallOnlyWhenDirect ==
    Called =>
        /\ calls = << >> <=> (ArticleSelected /\ DirectlyAnswered)
        /\ Len(calls) <= 1
        /\ (NoArticleSelected => calls = << question >>)
        /\ (ArticleSelected /\ ~DirectlyAnswered) =>
                /\ calls # << question >>
                /\ Contains(calls[1], question)
                /\ Contains(calls[1], Take(extract_main_content(BestArticle), 800))

\* C7's case: a yes/no question, an article that answers it, the call done
\* and nothing posted.
C7_Witness ==
    /\ pc = "done" /\ ArticleSelected /\ DirectlyAnswered
    /\ calls = << >>
    /\ ret.answer = PyStr(extract_main_content(BestArticle))

\* C7's other case: a yes/no question, an article that matches it but whose
\* content holds no verdict, and one request posted.
C7_EnhanceWitness ==
    /\ pc = "awaiting" /\ ArticleSelected /\ ~DirectlyAnswered
    /\ Contains(Lower(question), "mozhno li")
    /\ Len(calls) = 1

\* C8 as claimed: with no matching article the service is called once with
\* the raw question; a success returns (text, None, the "generated" label),
\* a failure returns a fixed non-empty message, no script and a label
\* distinct from the "generated" one.
C8_NotFoundMessage ==
    (pc = "done" /\ NoArticleSelected) =>
        /\ calls = << question >>
        /\ ret.raised = ""
        /\ ret.script = PyNone
        /\ IF CallFailed(reply)
           THEN ret.answer.t = "str" /\ ret.answer.s # "" /\ ret.source # "Neyroset"
           ELSE ret.answer = ServiceText(reply) /\ ret.source = "Neyroset"

\* C8 amended: with no matching article the service is called exactly once
\* with the raw question as prompt and the result is (v, None, "Neyroset"):
\* v is the service's text on success and None on any failure; a failure
\* yields no message and no label of its own.
C8_NoneOnFailure ==
    (pc = "done" /\ NoArticleSelected) =>
        /\ calls = << question >>
        /\ ret = Triple(ServiceText(reply), PyNone, "Neyroset")
        /\ CallFailed(reply) => ret.answer = PyNone

\* C8's case: no article matches, the POST timed out, and the triple is
\* (None, None, "Neyroset").
C8_Witness ==
    /\ pc = "done" /\ NoArticleSelected
    /\ file.status = "ok"
    /\ reply.kind = "TimeoutError"
    /\ calls = << "pogoda zavtra" >>
    /\ ret = Triple(PyNone, PyNone, "Neyroset")

\* C8's other case: the service generated a text.
C8_SuccessWitness ==
    /\ pc = "done" /\ NoArticleSelected
    /\ ret = Triple(PyStr("Oplata cherez bank"), PyNone, "Neyroset")

\* C9: once the service has been called, whatever the call ends in (no
\* connection, timeout, non-200 status, a body that is not JSON, a list
\* headed by a non-object), generate_response returns a triple and raises
\* nothing, and neither ask_huggingface nor enhance_with_ai raises.
C9_FailuresAbsorbed ==
    (pc = "done" /\ reply # NoReply) =>
        /\ ret.raised = ""
        /\ ask_huggingface(reply).exc = ""
        /\ enhance_with_ai(reply).exc = ""

\* C9's case: the reply is a list headed by a non-object, in a call without
\* a matching article, and the call returned.
C9_Witness ==
    /\ pc = "done" /\ NoArticleSelected
    /\ reply.kind = "json" /\ reply.body.t = "list" /\ reply.body.n > 0
    /\ ~reply.first.isdict
    /\ ret.raised = "" /\ ret.answer = PyNone

\* C10 as claimed: whenever an article was selected the answer is a
\* non-empty string, whatever the service returns.
C10_AnswerIsText ==
    (pc = "done" /\ ArticleSelected) => (ret.answer.t = "str" /\ ret.answer.s # "")


----------------------------------------------------------------------------
(* SpecExtract: one article text and the three field extractors.           *)

\* Longest article, in lines, that SpecExtract draws from ExtractPool.
MaxExtractLines == 2

\* Lines of the drawn articles: both title markers, the primary marker
\* without a colon, the content, script and advice markers, both kinds of
\* terminator, a padded line, a short one, an empty one, a line with the
\* '===' prefix and one with a skipped prefix.
ExtractPool ==
    { "STATYA 1: Oplata scheta",
      "Zagolovok: Scheta ",
      "STATYA bez dvoetochiya",
      "SODERZHANIE:",
      "Chto skazat klientu",
      "Deystviya operatora",
      "---",
      "konets ======== razdela",
      "  Oplatit mozhno cherez bank ",
      "Korotko",
      "",
      "=== BAZA ZNANIY ===",
      "MO: Moskovskaya oblast" }

RECURSIVE NumberedLines(_, _, _)
\* The lines prefix1 .. prefixN, from line i on.
NumberedLines(prefix, i, n) ==
    IF i > n THEN << >>
    ELSE << prefix \o ToString(i) >> \o NumberedLines(prefix, i + 1, n)

\* A text of RawPrefixLen characters, built by doubling.
RawFiller ==
    LET ten   == "0123456789"
        fifty == ten \o ten \o ten \o ten \o ten
        block == fifty \o fifty \o fifty \o fifty \o fifty
    IN  block \o block

\* Articles longer than the caps of the extractors: a content section, a
\* script section and an unmarked text of more lines than are kept, a
\* content section whose terminator comes behind the cap, one line without
\* meaning that is longer than the raw prefix, and an advice marker with
\* more lines behind it than are looked at.
LongArticles ==
    { Join(<< "SODERZHANIE:" >> \o NumberedLines("stroka ", 1, MaxContentLines + 2), "\n"),
      Join(<< "@ rech operatora" >> \o NumberedLines("fraza ", 1, MaxScriptLines + 2), "\n"),
      Join(NumberedLines("znachimaya stroka ", 1, MaxMeaningfulLines + 2), "\n"),
      Join(<< "SODERZHANIE:" >> \o NumberedLines("stroka ", 1, MaxContentLines + 1)
           \o << "---", "posle razdela" >>, "\n"),
      "=== " \o RawFiller \o " konets",
      Join(<< "Konsultatsiya" >> \o NumberedLines("sovet ", 1, AdviceWindow + 2), "\n") }

\* Articles of three lines: a skipped line inside the content section, a
\* short and a '===' line above a meaningful one, and an advice marker with
\* a '---' line behind it.
LayeredArticles ==
    { "SODERZHANIE:\nMO: Moskovskaya oblast\nKorotko",
      "Korotko\n=== BAZA ZNANIY ===\n  Oplatit mozhno cherez bank ",
      "Deystviya operatora\n---\n  Oplatit mozhno cherez bank " }

\* The article texts handed to the extractors; the empty text is one.
ExtractArticles ==
    { Join(ls, "\n") : ls \in UNION { [1..n -> ExtractPool] : n \in 1..MaxExtractLines } }
    \cup LayeredArticles \cup LongArticles

\* What a call of an extractor ends in: a value, or an exception.
Returned(v) == [raised |-> "", value |-> v]

Raised(exc) == [raised |-> exc, value |-> PyNone]

\* line.split(':', 1): one part when the line has no colon, else two.
SplitOnce(line, sep) ==
    LET i == Find(line, sep, 1)
    IN  IF i = 0 THEN << line >>
        ELSE << SubSeq(line, 1, i - 1), Drop(line, i + Len(sep) - 1) >>

\* get_article_title as a call: [1] of a one-part split is an IndexError.
get_article_title_call(article) ==
    LET lines  == Split(article, "\n")
        titled == { i \in 1..Len(lines) : IsTitleLine(lines[i]) }
        first  == CHOOSE i \in titled : \A j \in titled : i <= j
    IN  IF titled # {} /\ Len(SplitOnce(lines[first], ":")) < 2
        THEN Raised("IndexError")
        ELSE Returned(PyStr(get_article_title(article)))

InitExtract ==
    /\ \E a \in ExtractArticles :
            /\ segs = << a >>
            /\ file = [status |-> "ok", text |-> a]
    /\ question = ""
    /\ pc = "idle"
    /\ ret = Returned(PyNone)
    /\ calls = << >>
    /\ reply = NoReply
    /\ frame = NoFrame
    /\ OthersInit

GetArticleTitle ==
    /\ pc = "idle"
    /\ pc' = "title"
    /\ ret' = get_article_title_call(segs[1])
    /\ UNCHANGED <<file, segs, question, calls, reply, frame, others>>

ExtractMainContent ==
    /\ pc = "idle"
    /\ pc' = "content"
    /\ ret' = Returned(PyStr(extract_main_content(segs[1])))
    /\ UNCHANGED <<file, segs, question, calls, reply, frame, others>>

ExtractScript ==
    /\ pc = "idle"
    /\ pc' = "script"
    /\ ret' = Returned(extract_script(segs[1]))
    /\ UNCHANGED <<file, segs, question, calls, reply, frame, others>>

NextExtract == GetArticleTitle \/ ExtractMainContent \/ ExtractScript

SpecExtract == InitExtract /\ [][NextExtract]_vars

----------------------------------------------------------------------------
(* Claims about the field extractors (SpecExtract).                        *)

\* The lines of the article under extraction.
ArticleLines == Split(segs[1], "\n")

\* The first of a non-empty set of line numbers.
FirstOf(S) == CHOOSE i \in S : \A j \in S : i <= j

\* The trimmed text behind the first colon of a line that has one.
TextBehindColon(line) == Strip(Join(Tail(Split(line, ":")), ":"))

PrimaryLines ==
    { i \in 1..Len(ArticleLines) :
        Contains(ArticleLines[i], "STATYA") /\ Contains(ArticleLines[i], ":") }

SecondaryLines ==
    { i \in 1..Len(ArticleLines) : Contains(ArticleLines[i], "Zagolovok:") }

\* C11: get_article_title returns the trimmed text behind the first colon
\* of the first line with the primary marker and a colon whenever the
\* article has such a line; the secondary marker is used only when no line
\* carries the primary marker with a colon; without either marker the
\* title is the fixed sentinel.
C11_PrimaryMarkerFirst ==
    pc = "title" =>
        ret = Returned(PyStr(
                IF PrimaryLines # {}
                THEN TextBehindColon(ArticleLines[FirstOf(PrimaryLines)])
                ELSE IF SecondaryLines # {}
                THEN TextBehindColon(ArticleLines[FirstOf(SecondaryLines)])
                ELSE "Statya iz bazy znaniy"))

\* The trimmed lines of the article at the line numbers in S, in order.
LinesAt(S) ==
    [k \in 1..Cardinality(S) |->
        Strip(ArticleLines[CHOOSE i \in S : Cardinality({ j \in S : j <= i }) = k])]

NonBlank(i) == Strip(ArticleLines[i]) # ""

\* The line begins with the prefix p.
Begins(line, p) == Len(line) >= Len(p) /\ SubSeq(line, 1, Len(p)) = p

\* The first n elements of a sequence, all of them when it has fewer.
FirstN(seq, n) == [k \in 1..(IF Len(seq) < n THEN Len(seq) ELSE n) |-> seq[k]]

\* A line shaped as a section terminator: it starts with '---' or holds a
\* run of eight '='.
TerminatorShaped(i) ==
    \/ Begins(ArticleLines[i], "---")
    \/ Contains(ArticleLines[i], "========")

HasContentMarker(i) ==
    \/ Contains(ArticleLines[i], "SODERZHANIE:")
    \/ Contains(ArticleLines[i], "Obshchaya informatsiya")

ContentMarkerLines == { i \in 1..Len(ArticleLines) : HasContentMarker(i) }

\* The line of the first content marker, and the line at which the section
\* it opens ends as claimed: the first terminator-shaped line behind it, or
\* one past the end of the article.
SectionStart == FirstOf(ContentMarkerLines)

SectionEndAsClaimed ==
    FirstOf({ i \in (SectionStart + 1)..(Len(ArticleLines) + 1) :
                i = Len(ArticleLines) + 1 \/ TerminatorShaped(i) })

\* As the code ends it: a line that repeats a content marker is not looked
\* at as a terminator.
SectionEnd ==
    FirstOf({ i \in (SectionStart + 1)..(Len(ArticleLines) + 1) :
                i = Len(ArticleLines) + 1 \/ (TerminatorShaped(i) /\ ~HasContentMarker(i)) })

\* Every non-empty line of the section, as claimed.
SectionAsClaimed ==
    { i \in (SectionStart + 1)..(SectionEndAsClaimed - 1) : NonBlank(i) }

\* The lines of the section that are kept: not blank, no repeated content
\* marker, no 'MO' or 'Poisk' prefix.
SectionKept ==
    { i \in (SectionStart + 1)..(SectionEnd - 1) :
        /\ NonBlank(i)
        /\ ~HasContentMarker(i)
        /\ ~Begins(ArticleLines[i], "MO")
        /\ ~Begins(ArticleLines[i], "Poisk") }

\* C12 as claimed: with a content marker followed by at least one non-empty
\* line before the terminator, extract_main_content returns every non-empty
\* line between the first marker and the first terminator, trimmed, in
\* order, cut to the first 15.
C12_EveryLineOfSection ==
    (pc = "content" /\ ContentMarkerLines # {} /\ SectionAsClaimed # {}) =>
        ret = Returned(PyStr(Join(FirstN(LinesAt(SectionAsClaimed), 15), "\n")))

\* C12 amended: when, between the first content marker line and the first
\* terminator behind it (a line that starts with '---' or holds eight '='
\* and carries no content marker), at least one line is not blank, carries
\* no content marker and does not begin with 'MO' or 'Poisk', then
\* extract_main_content returns exactly those lines, trimmed, in order, cut
\* to the first 15; no line at or behind the terminator is included.
C12_KeptLinesOfSection ==
    (pc = "content" /\ ContentMarkerLines # {} /\ SectionKept # {}) =>
        ret = Returned(PyStr(Join(FirstN(LinesAt(SectionKept), 15), "\n")))

\* C12's case: a section of 16 kept lines, then a terminator and a line
\* behind it; the first 15 lines are returned.
C12_Witness ==
    /\ pc = "content"
    /\ ContentMarkerLines # {}
    /\ Cardinality(SectionKept) = 16
    /\ SectionEnd < Len(ArticleLines)
    /\ Len(Split(ret.value.s, "\n")) = 15
    /\ ~Contains(ret.value.s, "posle razdela")

\* C12's other case: a line with a skipped prefix inside the section is
\* left out and the line behind it is kept.
C12_SkippedWitness ==
    /\ pc = "content"
    /\ ContentMarkerLines # {}
    /\ Cardinality(SectionAsClaimed) = 2
    /\ ret = Returned(PyStr("Korotko"))

\* The meaningful lines: longer than 10 characters once trimmed and not
\* beginning with '==='.
MeaningfulAt ==
    { i \in 1..Len(ArticleLines) :
        Len(Strip(ArticleLines[i])) > 10 /\ ~Begins(ArticleLines[i], "===") }

\* The first 500 characters of the article and an ellipsis.
RawPrefix ==
    (IF Len(segs[1]) <= 500 THEN segs[1] ELSE SubSeq(segs[1], 1, 500)) \o "..."

\* C13: without a content marker extract_main_content returns the first (at
\* most 10) meaningful lines, trimmed, in order: the lines longer than 10
\* characters once trimmed that do not begin with the boilerplate prefix
\* '==='; only when there is no such line it returns the first 500
\* characters of the article followed by an ellipsis.
C13_MeaningfulLinesOrPrefix ==
    (pc = "content" /\ ContentMarkerLines = {}) =>
        ret = Returned(PyStr(IF MeaningfulAt # {}
                             THEN Join(FirstN(LinesAt(MeaningfulAt), 10), "\n")
                             ELSE RawPrefix))

\* C13's case: twelve meaningful lines without a marker, ten returned.
C13_Witness ==
    /\ pc = "content"
    /\ ContentMarkerLines = {}
    /\ Cardinality(MeaningfulAt) = 12
    /\ Len(Split(ret.value.s, "\n")) = 10

\* C13's other case: no meaningful line in an article of more than 500
\* characters; the first 500 and the ellipsis are returned.
C13_PrefixWitness ==
    /\ pc = "content"
    /\ ContentMarkerLines = {}
    /\ MeaningfulAt = {}
    /\ Len(segs[1]) > 500
    /\ Len(ret.value.s) = 503

\* C13's third case: a short line and a line with the '===' prefix are
\* passed over and the meaningful line behind them is returned trimmed.
C13_PassedOverWitness ==
    /\ pc = "content"
    /\ segs[1] = "Korotko\n=== BAZA ZNANIY ===\n  Oplatit mozhno cherez bank "
    /\ ret = Returned(PyStr("Oplatit mozhno cherez bank"))

HasScriptTrigger(i) ==
    \E m \in { "@", "Chto skazat", "skript", "rech operatora" } :
        Contains(ArticleLines[i], m)

ScriptTriggerLines == { i \in 1..Len(ArticleLines) : HasScriptTrigger(i) }

ScriptStart == FirstOf(ScriptTriggerLines)

\* The first terminator-shaped line behind the first trigger line, or one
\* past the end of the article.
ScriptEndAsClaimed ==
    FirstOf({ i \in (ScriptStart + 1)..(Len(ArticleLines) + 1) :
                i = Len(ArticleLines) + 1 \/ TerminatorShaped(i) })

\* As the code ends the section: a line that repeats a trigger is not looked
\* at as a terminator.
ScriptEnd ==
    FirstOf({ i \in (ScriptStart + 1)..(Len(ArticleLines) + 1) :
                i = Len(ArticleLines) + 1 \/ (TerminatorShaped(i) /\ ~HasScriptTrigger(i)) })

\* The non-empty lines between the first trigger and the first terminator.
ScriptAsClaimed ==
    { i \in (ScriptStart + 1)..(ScriptEndAsClaimed - 1) : NonBlank(i) }

\* Those of them that are kept: the ones that repeat no trigger.
ScriptKept ==
    { i \in (ScriptStart + 1)..(ScriptEnd - 1) : NonBlank(i) /\ ~HasScriptTrigger(i) }

RECURSIVE IsSubsequence(_, _, _, _)
\* a[i..] can be read off b[j..] in order.
IsSubsequence(a, b, i, j) ==
    IF i > Len(a) THEN TRUE
    ELSE IF j > Len(b) THEN FALSE
    ELSE IF a[i] = b[j] THEN IsSubsequence(a, b, i + 1, j + 1)
    ELSE IsSubsequence(a, b, i, j + 1)

HasAdvice(i) ==
    \/ Contains(ArticleLines[i], "Deystviya operatora")
    \/ Contains(ArticleLines[i], "Konsultatsiya")

\* The lines taken behind an advice marker at line i: of the five lines
\* that follow it, the ones that are not blank and do not begin with '---'.
AdvisedBehind(i) ==
    { j \in (i + 1)..(i + 5) :
        j <= Len(ArticleLines) /\ NonBlank(j) /\ ~Begins(ArticleLines[j], "---") }

AdviceLinesWithText ==
    { i \in 1..Len(ArticleLines) : HasAdvice(i) /\ AdvisedBehind(i) # {} }

\* C14 as claimed: no script whenever no line holds a script trigger; with
\* a trigger line, the script is made only of trimmed non-empty lines that
\* follow the first trigger line and precede the first terminator behind
\* it, in order, and has at most 10 lines.
C14_ScriptOnlyBehindTrigger ==
    pc = "script" =>
        /\ ScriptTriggerLines = {} => ret = Returned(PyNone)
        /\ (ScriptTriggerLines # {} /\ ret.value # PyNone) =>
                LET got == Split(ret.value.s, "\n")
                IN  /\ Len(got) <= 10
                    /\ IsSubsequence(got, LinesAt(ScriptAsClaimed), 1, 1)

\* C14 amended: when lines that are not blank and repeat no trigger stand
\* between the first trigger line and the first terminator behind it, the
\* script is exactly those lines, trimmed, in order, cut to the first 10.
\* Otherwise (no trigger line, or nothing kept behind it) the script is
\* taken behind the first advice-marker line that has text among the five
\* lines that follow it: those of the five lines that are not blank and do
\* not begin with '---', trimmed, in order.  There is no script only when
\* neither applies.
C14_ScriptOrAdvice ==
    pc = "script" =>
        ret = Returned(
                IF ScriptTriggerLines # {} /\ ScriptKept # {}
                THEN PyStr(Join(FirstN(LinesAt(ScriptKept), 10), "\n"))
                ELSE IF AdviceLinesWithText # {}
                THEN PyStr(Join(LinesAt(AdvisedBehind(FirstOf(AdviceLinesWithText))), "\n"))
                ELSE PyNone)

\* C14's case: a trigger line and twelve lines behind it, ten returned.
C14_Witness ==
    /\ pc = "script"
    /\ ScriptTriggerLines # {}
    /\ Cardinality(ScriptKept) = 12
    /\ Len(Split(ret.value.s, "\n")) = 10

\* C14's amended case: no trigger line, an advice marker, and a script made
\* of the line behind a '---' line.
C14_AdviceWitness ==
    /\ pc = "script"
    /\ ScriptTriggerLines = {}
    /\ segs[1] = "Deystviya operatora\n---\n  Oplatit mozhno cherez bank "
    /\ ret = Returned(PyStr("Oplatit mozhno cherez bank"))

\* C14's third case: neither a trigger nor an advice marker, no script.
C14_NoScriptWitness ==
    /\ pc = "script"
    /\ ScriptTriggerLines = {} /\ AdviceLinesWithText = {}
    /\ Len(ArticleLines) = 3
    /\ ret = Returned(PyNone)

\* C14's fourth case: seven lines behind an advice marker, five taken.
C14_WindowWitness ==
    /\ pc = "script"
    /\ ScriptTriggerLines = {}
    /\ Len(ArticleLines) = 8
    /\ ret = Returned(PyStr("sovet 1\nsovet 2\nsovet 3\nsovet 4\nsovet 5"))

\* C15: whatever the article text (empty, one line, no markers, a marker
\* without a colon or without lines behind it, only terminators), each of
\* the three extractors returns a value and raises nothing; without the
\* structure it looks for, the title is the sentinel, the content is the
\* raw prefix and there is no script.
C15_ExtractorsNeverRaise ==
    /\ pc \in {"title", "content", "script"} => ret.raised = ""
    /\ pc = "title" =>
            /\ ret.value.t = "str"
            /\ (PrimaryLines = {} /\ SecondaryLines = {}) =>
                    ret.value.s = "Statya iz bazy znaniy"
    /\ pc = "content" =>
            /\ ret.value.t = "str"
            /\ (ContentMarkerLines = {} /\ MeaningfulAt = {}) => ret.value.s = RawPrefix
    /\ pc = "script" =>
            /\ ret.value.t \in {"str", "None"}
            /\ (ScriptTriggerLines = {} /\ \A i \in 1..Len(ArticleLines) : ~HasAdvice(i)) =>
                    ret.value = PyNone

\* C15's case: the primary marker on a line without a colon; the title is
\* the sentinel and nothing is raised.
C15_Witness ==
    /\ pc = "title"
    /\ segs[1] = "STATYA bez dvoetochiya"
    /\ ret = Returned(PyStr("Statya iz bazy znaniy"))

\* C15's other cases: the empty article, and an article of terminators.
C15_EmptyWitness ==
    /\ pc = "content"
    /\ segs[1] = ""
    /\ ret = Returned(PyStr("..."))

C15_TerminatorsWitness ==
    /\ pc = "script"
    /\ segs[1] = "---\n---"
    /\ ret = Returned(PyNone)

----------------------------------------------------------------------------
(* KnowledgeAnalyzer (database_manager.py) and SpecAnalyze.                *)

\* The topics and their keywords: 'Показания ПУ', 'Оплата', 'Задолженность',
\* 'Техподдержка', 'Договоры', 'Тарифы', 'Качество услуг'.
Topics ==
    [ name \in { "Pokazaniya PU", "Oplata", "Zadolzhennost", "Tekhpodderzhka",
                 "Dogovory", "Tarify", "Kachestvo uslug" } |->
        CASE name = "Pokazaniya PU"  -> << "pokazaniya", "schetchik", "IPU", "peredat pokazaniya" >>
          [] name = "Oplata"         -> << "oplata", "platezh", "kvitantsiya", "EPD" >>
          [] name = "Zadolzhennost"  -> << "zadolzhennost", "dolg", "rabota s dolzhnikami" >>
          [] name = "Tekhpodderzhka" -> << "tekhnicheskaya podderzhka", "LKK", "sboy", "oshibka" >>
          [] name = "Dogovory"       -> << "dogovor", "litsevoy schet", "pereoformlenie" >>
          [] name = "Tarify"         -> << "tarif", "stoimost", "tsena", "nachislenie" >>
          [] name = "Kachestvo uslug" ->
                << "kachestvo", "zhaloba", "pereraschet", "nenadlezhashchee kachestvo" >> ]

\* keyword_count > 10 is high, > 3 is medium.
HighAbove == 10

MediumAbove == 3

\* 'высокое', 'среднее', 'низкое'
CoverageLevel_Inclusive(keyword_count) ==
    IF keyword_count >= HighAbove THEN "vysokoe"
    ELSE IF keyword_count >= MediumAbove THEN "srednee"
    ELSE "nizkoe"

CoverageLevel(keyword_count) ==
    IF keyword_count > HighAbove THEN "vysokoe"
    ELSE IF keyword_count > MediumAbove THEN "srednee"
    ELSE "nizkoe"

RECURSIVE KeywordCount(_, _, _)
\* keyword_count += content_lower.count(keyword.lower()), from keyword i on.
KeywordCount(keywords, content_lower, i) ==
    IF i > Len(keywords) THEN 0
    ELSE Count(content_lower, Lower(keywords[i]))
         + KeywordCount(keywords, content_lower, i + 1)

\* analyze_coverage: the coverage of every topic, or {"error": ...}.
analyze_coverage(f) ==
    IF FileError(f) # ""
    THEN [error |-> FileError(f), coverage |-> << >>]
    ELSE LET content_lower == Lower(f.text)
         IN  [error |-> "",
              coverage |->
                [ topic \in DOMAIN Topics |->
                    LET keyword_count == KeywordCount(Topics[topic], content_lower, 1)
                    IN  [keyword_count |-> keyword_count,
                         coverage_level |-> CoverageLevel(keyword_count)] ]]

\* A token of a question counts when it is longer than this.
GapWordLen == 4

\* found: some keyword of question_lower.split() is long enough and in content.
Answered_AnyLength(question_text, content) ==
    \E k \in 1..Len(Words(Lower(question_text))) :
        Contains(content, Words(Lower(question_text))[k])

Answered(question_text, content) ==
    \E k \in 1..Len(Words(Lower(question_text))) :
        LET keyword == Words(Lower(question_text))[k]
        IN  Len(keyword) > GapWordLen /\ Contains(content, keyword)

\* find_gaps: the questions without an answer, or {"error": ...}.
find_gaps(f, user_questions) ==
    IF FileError(f) # ""
    THEN [error |-> FileError(f), gaps |-> << >>]
    ELSE LET content == Lower(f.text)
         IN  [error |-> "",
              gaps |-> SelectSeq(user_questions, LAMBDA q : ~Answered(q, content))]

\* Most copies of one fragment in a corpus text of SpecAnalyze.
MaxRepeats == 6

\* Most copies of the phrase in it.
MaxPhrases == 2

\* Most questions handed to find_gaps.
MaxQuestions == 2

\* The texts a corpus of SpecAnalyze is made of: two keywords of one topic
\* (one in capitals) and a phrase that holds two keywords of another.
Fragments == << "Oplata ", "PLATEZH\n", "peredat pokazaniya " >>

RECURSIVE Copies(_, _)
\* n copies of a text.
Copies(text, n) == IF n = 0 THEN "" ELSE text \o Copies(text, n - 1)

\* Questions: one answered by the phrase (in capitals), one without a long
\* token (its four-letter token is part of a keyword), and one with a
\* token of five letters that is part of a keyword.
GapQuestions == { "Kak PEREDAT pokazaniya", "Gde moy plat", "novyy plate" }

QuestionLists == UNION { [1..n -> GapQuestions] : n \in 0..MaxQuestions }

InitAnalyze ==
    /\ \/ \E n1 \in 0..MaxRepeats, n2 \in 0..MaxRepeats, n3 \in 0..MaxPhrases :
            /\ segs = << >>
            /\ file = [status |-> "ok",
                       text |-> Copies(Fragments[1], n1) \o Copies(Fragments[2], n2)
                                \o Copies(Fragments[3], n3)]
       \/ \E st \in FileStatuses \ {"ok"} :
            /\ segs = << >>
            /\ file = [status |-> st, text |-> ""]
    /\ question = << >>
    /\ pc = "idle"
    /\ ret = [error |-> "", coverage |-> << >>]
    /\ calls = << >>
    /\ reply = NoReply
    /\ frame = NoFrame
    /\ OthersInit

AnalyzeCoverage ==
    /\ pc = "idle"
    /\ pc' = "analyzed"
    /\ ret' = analyze_coverage(file)
    /\ UNCHANGED <<file, segs, question, calls, reply, frame, others>>

FindGaps(user_questions) ==
    /\ pc = "idle"
    /\ pc' = "gaps"
    /\ question' = user_questions
    /\ ret' = find_gaps(file, user_questions)
    /\ UNCHANGED <<file, segs, calls, reply, frame, others>>

NextAnalyze ==
    \/ AnalyzeCoverage
    \/ \E qs \in QuestionLists : FindGaps(qs)

SpecAnalyze == InitAnalyze /\ [][NextAnalyze]_vars

----------------------------------------------------------------------------
(* Claims about KnowledgeAnalyzer (SpecAnalyze).                           *)

\* The number of places of the lower-cased corpus text at which the
\* lower-cased keywords of a topic occur.
RECURSIVE PlacesOfKeywords(_, _)
PlacesOfKeywords(keywords, i) ==
    IF i > Len(keywords) THEN 0
    ELSE Cardinality(Occurrences(Lower(file.text), Lower(keywords[i])))
         + PlacesOfKeywords(keywords, i + 1)

\* C16: analyze_coverage returns for every topic of the table a count equal
\* to the number of occurrences of its lower-cased keywords in the
\* lower-cased corpus text, and a level that is high exactly when the count
\* is above 10, medium exactly when it is above 3 and at most 10, and low
\* otherwise.
C16_CountsAndLevels ==
    (pc = "analyzed" /\ file.status = "ok") =>
        /\ ret.error = ""
        /\ DOMAIN ret.coverage = DOMAIN Topics
        /\ \A topic \in DOMAIN Topics :
            LET c == ret.coverage[topic]
            IN  /\ c.keyword_count = PlacesOfKeywords(Topics[topic], 1)
                /\ c.coverage_level = "vysokoe" <=> c.keyword_count > 10
                /\ c.coverage_level = "srednee" <=>
                        (c.keyword_count > 3 /\ c.keyword_count <= 10)
                /\ c.coverage_level = "nizkoe" <=> c.keyword_count <= 3

\* C16's case: twelve occurrences of the keywords of a topic, level high.
C16_Witness ==
    /\ pc = "analyzed" /\ file.status = "ok"
    /\ ret.coverage["Oplata"] = [keyword_count |-> 12, coverage_level |-> "vysokoe"]

\* C16's other cases: 10 is medium, 3 is low, 11 is high, 4 is medium.
C16_TenWitness ==
    /\ pc = "analyzed" /\ file.status = "ok"
    /\ ret.coverage["Oplata"] = [keyword_count |-> 10, coverage_level |-> "srednee"]

C16_ThreeWitness ==
    /\ pc = "analyzed" /\ file.status = "ok"
    /\ ret.coverage["Oplata"] = [keyword_count |-> 3, coverage_level |-> "nizkoe"]

C16_ElevenWitness ==
    /\ pc = "analyzed" /\ file.status = "ok"
    /\ ret.coverage["Oplata"] = [keyword_count |-> 11, coverage_level |-> "vysokoe"]

C16_FourWitness ==
    /\ pc = "analyzed" /\ file.status = "ok"
    /\ ret.coverage["Pokazaniya PU"] = [keyword_count |-> 4, coverage_level |-> "srednee"]

\* The question is a gap: none of the tokens of the lower-cased question
\* that are longer than 4 characters occurs in the lower-cased corpus text.
IsGap(q) ==
    \A w \in Tokens(Lower(q)) : Len(w) > 4 => Occurrences(Lower(file.text), w) = {}

\* The places of the questions handed in that are gaps.
GapPlaces == { i \in 1..Len(question) : IsGap(question[i]) }

\* C17: find_gaps returns exactly the questions, in input order, of which
\* no token longer than 4 characters occurs in the corpus text (both
\* lower-cased); a question without a token longer than 4 characters is
\* always among them.
C17_GapsInOrder ==
    (pc = "gaps" /\ file.status = "ok") =>
        /\ ret.error = ""
        /\ LET places == GapPlaces
           IN  ret.gaps = [k \in 1..Cardinality(places) |->
                            question[CHOOSE i \in places :
                                        Cardinality({ j \in places : j <= i }) = k]]
        /\ \A i \in 1..Len(question) :
                (\A w \in Tokens(Lower(question[i])) : Len(w) <= 4) =>
                    \E k \in 1..Len(ret.gaps) : ret.gaps[k] = question[i]

\* C17's case: an answered question between two that are not; the two are
\* returned in their order (the corpus holds the phrase and no 'platezh').
C17_Witness ==
    /\ pc = "gaps" /\ file.status = "ok"
    /\ Contains(file.text, "peredat") /\ ~Contains(file.text, "PLATEZH")
    /\ question = << "Gde moy plat", "Kak PEREDAT pokazaniya" >>
    /\ ret.gaps = << "Gde moy plat" >>

\* C17's other cases: a token of five letters inside a keyword answers the
\* question, and the same question twice is reported twice.
C17_FiveLettersWitness ==
    /\ pc = "gaps" /\ file.status = "ok"
    /\ Contains(file.text, "PLATEZH")
    /\ question = << "novyy plate", "Gde moy plat" >>
    /\ ret.gaps = << "Gde moy plat" >>

C17_TwiceWitness ==
    /\ pc = "gaps" /\ file.status = "ok"
    /\ question = << "novyy plate", "novyy plate" >>
    /\ ret.gaps = question

----------------------------------------------------------------------------
(* The operations on the files: FileManager and get_knowledge_stats         *)
(* (database_manager.py), Parser (bot_main.py).                            *)

\* datetime.now().strftime("%Y-%m-%d %H:%M:%S") and ("%Y%m%d_%H%M%S"): the
\* time of the model does not advance.
Timestamp == "2024-01-01 12:00:00"

FileStamp == "20240101_120000"

\* "Статья без заголовка"
UntitledExport == "Statya bez zagolovka"

\* The title export_knowledge gives an article: the text behind the first
\* colon of the first line with 'СТАТЬЯ' and a colon.
ExportTitle(article) ==
    LET lines  == Split(article, "\n")
        titled == { i \in 1..Len(lines) :
                        Contains(lines[i], "STATYA") /\ Contains(lines[i], ":") }
    IN  IF titled = {} THEN UntitledExport
        ELSE AfterColon(lines[CHOOSE i \in titled : \A j \in titled : i <= j])

\* json_data['articles']: one entry for every segment that is not blank,
\* its id the place of the segment among all segments.
ExportArticles(content) ==
    LET articles == Split(content, Delimiter)
        places   == SelectSeq([i \in 1..Len(articles) |-> i],
                              LAMBDA i : Strip(articles[i]) # "")
    IN  [k \in 1..Len(places) |->
            [id      |-> places[k],
             title   |-> ExportTitle(articles[places[k]]),
             content |-> Strip(articles[places[k]])]]

\* export_knowledge(format_type): the file it writes, when it succeeds.
export_knowledge(f, format_type) ==
    IF FileError(f) # "" THEN [ok |-> FALSE, out |-> Absent]
    ELSE IF format_type = "json"
    THEN LET exported == ExportArticles(f.text)
         IN  [ok |-> TRUE, out |-> JsonFile(Len(exported), exported)]
    ELSE [ok |-> TRUE, out |-> TextFile(f.text)]

\* "=== БАЗА ЗНАНИЙ - ИМПОРТИРОВАНО ===", "Время импорта: ", "Источник: "
ImportHeader(file_path) ==
    "=== BAZA ZNANIY - IMPORTIROVANO ===\n"
    \o "Vremya importa: " \o Timestamp \o "\n"
    \o "Istochnik: " \o file_path \o "\n"
    \o Delimiter \o "\n"

RECURSIVE ImportArticles(_, _)
\* The loop of import_knowledge over data['articles'], from article i on.
ImportArticles(articles, i) ==
    IF i > Len(articles) THEN ""
    ELSE "STATYA " \o ToString(articles[i].id) \o ": " \o articles[i].title \o "\n"
         \o articles[i].content \o "\n"
         \o Delimiter \o "\n"
         \o ImportArticles(articles, i + 1)

\* The name export_knowledge gives its file.
ExportName(fmt) == "knowledge_export_" \o FileStamp \o "." \o fmt

\* The content import_knowledge builds from its source file.
ImportedContent(src) ==
    IF src.fmt = "json"
    THEN ImportHeader(ExportName(src.fmt)) \o ImportArticles(src.articles, 1)
    ELSE src.text

\* FileManager.create_backup: a copy of the corpus file under a new name;
\* (False, message) without a corpus file and when shutil.copy2 raises
\* (no directory 'database', no space, no permission).
create_backup(f, d, copied) ==
    IF f.status = "ok" /\ copied
    THEN [ok |-> TRUE, disk |-> [d EXCEPT !.stamped = Append(@, f.text)]]
    ELSE [ok |-> FALSE, disk |-> d]

\* A JSON file that json.load rejects, and one with an article that has
\* no title.
BrokenJson == [JsonFile(0, << >>) EXCEPT !.text = "{'articles': ["]

KeylessJson == JsonFile(1, << [id |-> 1, content |-> "Oplata cherez bank"] >>)

\* What import_knowledge has read of its source before it takes the
\* backup: the content to write, or the exception of open, json.load or
\* article['id'], article['title'], article['content'].
ReadSource(src) ==
    IF ~src.exists THEN [raised |-> "FileNotFoundError", content |-> ""]
    ELSE IF src.fmt = "json" /\ src.text # ""
    THEN [raised |-> "JSONDecodeError", content |-> ""]
    ELSE IF src.fmt = "json"
            /\ \E i \in 1..Len(src.articles) :
                    ~({"id", "title", "content"} \subseteq DOMAIN src.articles[i])
    THEN [raised |-> "KeyError", content |-> ""]
    ELSE [raised |-> "", content |-> ImportedContent(src)]

\* "=== БАЗА ЗНАНИЙ - ОБНОВЛЕНО {timestamp} ===\n{content}"
UpdatedContent(content) ==
    "=== BAZA ZNANIY - OBNOVLENO " \o Timestamp \o " ===\n" \o content

\* The statistics of get_knowledge_stats; only a missing file is caught.
get_knowledge_stats(f) ==
    IF FileError(f) = "FileNotFoundError"
    THEN [raised |-> "", article_count |-> 0, total_chars |-> 0, total_words |-> 0,
          last_update |-> "Fayl ne nayden"]
    ELSE IF FileError(f) # ""
    THEN [raised |-> FileError(f), article_count |-> 0, total_chars |-> 0,
          total_words |-> 0, last_update |-> ""]
    ELSE LET content == f.text
             lines   == Split(content, "\n")
             marked  == { i \in 1..Len(lines) : Contains(lines[i], "OBNOVLENO") }
             first   == CHOOSE i \in marked : \A j \in marked : i <= j
             parts   == Split(lines[first], "OBNOVLENO ")
         IN  IF marked # {} /\ Len(parts) < 2
             THEN [raised |-> "IndexError", article_count |-> 0, total_chars |-> 0,
                   total_words |-> 0, last_update |-> ""]
             ELSE [raised |-> "",
                   article_count |-> Len(StripNonBlank(Split(content, Delimiter))),
                   total_chars |-> Len(content),
                   total_words |-> Len(Words(content)),
                   last_update |-> IF marked = {} THEN "Neizvestno"
                                   ELSE Strip(parts[2])]

----------------------------------------------------------------------------
(* SpecFiles: the corpus file under its readers (the bot, the analyzer,    *)
(* the statistics) and its writers (run_parsing, import_knowledge,         *)
(* restore_backup), with the backups, the export and the accuracy counters.*)

\* The number of timestamped backups taken, of collection runs and of
\* answered questions the model follows.
MaxBackups == 1

MaxUpdates == 1

\* Most import headers in a corpus text.
MaxImports == 1

MaxAnswered == 1

\* Most handlers of one accuracy keyboard that wait for their edit_text.
MaxCallbacks == 2

\* A corpus of two articles, the second without a title line, closed by a
\* separator line as format_articles_to_knowledge closes every article.
FilesCorpus ==
    "STATYA 1: Oplata scheta\nOplatit mozhno cherez bank" \o DelimiterLine
    \o "Pokazaniya peredayut do 25 chisla" \o DelimiterLine

FilesQuestions == { "oplata scheta", "pogoda zavtra" }

FilesReplies ==
    { Failure("TimeoutError"), JsonList(Generated(PyStr("Oplata cherez bank"))) }

FilesGapQuestions == << "Kak PEREDAT pokazaniya" >>

\* What Parser.run_parsing meets: the browser does not start, nobody logs
\* in within the 300 seconds, the login is seen, or the login is seen and
\* reading the corpus or writing the temporary file raises.
ParsingOutcomes == { "driver_failed", "login_timeout", "logged_in", "collect_failed" }

InitFiles ==
    /\ \/ file = [status |-> "ok", text |-> FilesCorpus]
       \/ file = [status |-> "missing", text |-> ""]
    /\ segs = << >>
    /\ question = ""
    /\ pc = "idle"
    /\ ret = Raise("")
    /\ calls = << >>
    /\ reply = NoReply
    /\ frame = NoFrame
    /\ OthersInit

\* The positions of a reader that has its result.
ReadPositions == { "loaded", "ranked", "analyzed", "gaps", "stats", "accuracy" }

\* The writers run beside the bot. The bot reads the corpus file only in
\* the step that leaves "idle", so the steps of the writers are followed
\* between the calls of the bot.
WriterMayStep == pc = "idle"

\* Mutant: the statistics create the corpus file they do not find.
GetKnowledgeStats_Touches ==
    /\ pc = "idle"
    /\ pc' = "stats"
    /\ ret' = get_knowledge_stats(file)
    /\ file' = IF file.status = "missing" THEN [status |-> "ok", text |-> ""] ELSE file
    /\ UNCHANGED <<segs, question, calls, reply, frame, others>>

GetKnowledgeStats ==
    /\ pc = "idle"
    /\ pc' = "stats"
    /\ ret' = get_knowledge_stats(file)
    /\ UNCHANGED <<file, segs, question, calls, reply, frame, others>>

\* The reader's caller has taken the result.
ReaderReturns ==
    /\ pc \in ReadPositions
    /\ pc' = "idle"
    /\ question' = ""
    /\ ret' = Raise("")
    /\ UNCHANGED <<file, segs, calls, reply, frame, others>>

\* An accuracy keyboard as accuracy_keyboard(message_id) builds it and
\* message.answer sends it: on the screen, no press of "correct" handled
\* and no handler of it waiting for its edit_text.
NewKeyboard == [shown |-> TRUE, correct |-> 0, editing |-> 0]

\* handle_questions behind its call of generate_response: an answer that is
\* truthy is sent and counted and its accuracy keyboard is sent, anything
\* else ends the handler.
HandleQuestionsEnds ==
    /\ pc = "done"
    /\ pc' = "idle"
    /\ question' = ""
    /\ ret' = Raise("")
    /\ calls' = << >>
    /\ reply' = NoReply
    /\ IF ret.raised = "" /\ Truthy(ret.answer)
       THEN /\ accuracy_stats.total < MaxAnswered
            /\ accuracy_stats' = [accuracy_stats EXCEPT !.total = @ + 1]
            /\ keyboards' = Append(keyboards, NewKeyboard)
       ELSE /\ accuracy_stats' = accuracy_stats
            /\ keyboards' = keyboards
    /\ UNCHANGED <<file, segs, frame, pending, disk, writer>>

\* handle_accuracy_feedback up to its first await: a button of the accuracy
\* keyboard of message count, still on the screen, has been pressed. For
\* "correct" the counter moves and the handler waits for its edit_text. For
\* "incorrect" the handler reads callback.message.reply_to_message.text, and
\* the keyboard message, sent by message.answer, replies to no message: it
\* ends in AttributeError with nothing changed.
HandleAccuracyFeedback(action, count) ==
    /\ count \in 1..Len(keyboards)
    /\ keyboards[count].shown
    /\ keyboards[count].editing < MaxCallbacks
    /\ IF action = "correct"
       THEN /\ accuracy_stats' = [accuracy_stats EXCEPT !.correct = @ + 1]
            /\ keyboards' = [keyboards EXCEPT ![count].correct = @ + 1,
                                              ![count].editing = @ + 1]
       ELSE /\ accuracy_stats' = accuracy_stats
            /\ keyboards' = keyboards
    /\ UNCHANGED <<file, segs, question, pc, ret, calls, reply, frame, pending,
                   disk, writer>>

\* callback.message.edit_text of a handler of "correct" reaches the chat:
\* the text of thanks replaces the keyboard of message count.
EditText(count) ==
    /\ count \in 1..Len(keyboards)
    /\ keyboards[count].editing > 0
    /\ keyboards' = [keyboards EXCEPT ![count].editing = @ - 1,
                                      ![count].shown = FALSE]
    /\ UNCHANGED <<file, segs, question, pc, ret, calls, reply, frame, pending,
                   disk, accuracy_stats, writer>>

\* (correct / total) * 100 in tenths, rounded to the nearest, a half to the
\* even tenth, as f"{accuracy:.1f}" rounds.
AccuracyTenths(stats) ==
    LET n == stats.correct * 1000
        q == n \div stats.total
        twice == 2 * (n % stats.total)
    IN  IF twice > stats.total \/ (twice = stats.total /\ q % 2 = 1)
        THEN q + 1
        ELSE q

get_accuracy(stats) ==
    IF stats.total = 0
    THEN "0%"
    ELSE LET tenths == AccuracyTenths(stats)
         IN  ToString(tenths \div 10) \o "." \o ToString(tenths % 10) \o "%"

\* show_accuracy (and cmd_start) report get_accuracy().
ShowAccuracy ==
    /\ pc = "idle"
    /\ pc' = "accuracy"
    /\ ret' = [raised |-> "", value |-> get_accuracy(accuracy_stats)]
    /\ UNCHANGED <<file, segs, question, calls, reply, frame, others>>

\* FileManager.export_knowledge(format_type).
ExportKnowledge(format_type) ==
    /\ WriterMayStep
    /\ writer.op = "none"
    /\ LET done == export_knowledge(file, format_type)
       IN  disk' = IF done.ok THEN [disk EXCEPT !.export = done.out] ELSE disk
    /\ UNCHANGED <<file, segs, question, pc, ret, calls, reply, frame, pending, keyboards,
                   accuracy_stats, writer>>

\* FileManager.create_backup().
CreateBackup(copied) ==
    /\ WriterMayStep
    /\ writer.op = "none"
    /\ Len(disk.stamped) < MaxBackups
    /\ disk' = create_backup(file, disk, copied).disk
    /\ UNCHANGED <<file, segs, question, pc, ret, calls, reply, frame, pending, keyboards,
                   accuracy_stats, writer>>

\* The files import_knowledge is handed: the exported file, a file that is
\* not there, and the two JSON files it cannot use.
ImportSources == { "exported", "absent", "broken", "keyless" }

SourceFile(file_path) ==
    CASE file_path = "exported" -> disk.export
      [] file_path = "absent"   -> Absent
      [] file_path = "broken"   -> BrokenJson
      [] file_path = "keyless"  -> KeylessJson

\* FileManager.import_knowledge(file_path) up to the open(KNOWLEDGE_FILE,
\* 'w') that empties the corpus file: the source is read, the backup is
\* taken and its result dropped, the corpus file is opened. A source that
\* cannot be read ends it with (False, message) before the backup.
ImportKnowledge(file_path, copied) ==
    /\ WriterMayStep
    /\ writer.op = "none"
    /\ Len(disk.stamped) < MaxBackups
    /\ LET source == ReadSource(SourceFile(file_path))
       IN  /\ Count(source.content, "IMPORTIROVANO") <= MaxImports
           /\ IF source.raised = ""
              THEN /\ disk' = create_backup(file, disk, copied).disk
                   /\ file' = [status |-> "ok", text |-> ""]
                   /\ writer' = [op |-> "import_knowledge", stage |-> "opened",
                                 old |-> file.text, new |-> source.content,
                                 existed |-> file.status = "ok", ok |-> TRUE]
              ELSE /\ writer' = [op |-> "import_knowledge", stage |-> "closed",
                                 old |-> file.text, new |-> file.text,
                                 existed |-> file.status = "ok", ok |-> FALSE]
                   /\ UNCHANGED <<file, disk>>
    /\ UNCHANGED <<segs, question, pc, ret, calls, reply, frame, pending, keyboards, accuracy_stats>>

\* FileManager.restore_backup() with its default argument, up to the moment
\* shutil.copy2 has opened the corpus file for writing; without the backup
\* file it ends with (False, message).
RestoreBackup ==
    /\ WriterMayStep
    /\ writer.op = "none"
    /\ IF disk.backup.exists
       THEN /\ file' = [status |-> "ok", text |-> ""]
            /\ writer' = [op |-> "restore_backup", stage |-> "opened",
                          old |-> file.text, new |-> disk.backup.text,
                          existed |-> file.status = "ok", ok |-> TRUE]
       ELSE /\ file' = file
            /\ writer' = [op |-> "restore_backup", stage |-> "closed",
                          old |-> file.text, new |-> file.text,
                          existed |-> file.status = "ok", ok |-> FALSE]
    /\ UNCHANGED <<segs, question, pc, ret, calls, reply, frame, pending, keyboards, disk, accuracy_stats>>

\* A part of the new content reaches the opened corpus file.
WriterWrites ==
    /\ WriterMayStep
    /\ writer.stage = "opened"
    /\ Len(writer.new) > 1
    /\ file' = [file EXCEPT !.text = Take(writer.new, Len(writer.new) \div 2)]
    /\ writer' = [writer EXCEPT !.stage = "writing"]
    /\ UNCHANGED <<segs, question, pc, ret, calls, reply, frame, pending, keyboards, disk, accuracy_stats>>

\* The rest is written and the corpus file is closed.
WriterCloses ==
    /\ WriterMayStep
    /\ writer.stage \in { "opened", "writing" }
    /\ file' = [file EXCEPT !.text = writer.new]
    /\ writer' = [writer EXCEPT !.stage = "closed"]
    /\ UNCHANGED <<segs, question, pc, ret, calls, reply, frame, pending, keyboards, disk, accuracy_stats>>

\* The write raises before a character has reached the opened file (a
\* character the encoding refuses, as a lone surrogate that json.load has
\* accepted; no space left): the operation ends with (False, message) and
\* the corpus file stays empty.
WriterFails ==
    /\ WriterMayStep
    /\ writer.stage = "opened"
    /\ writer' = [writer EXCEPT !.stage = "closed", !.ok = FALSE]
    /\ UNCHANGED <<file, segs, question, pc, ret, calls, reply, frame, pending, keyboards, disk,
                   accuracy_stats>>

\* Parser.update_knowledge_base up to the temporary file: Parser.create_backup,
\* then run_parsing, which writes the stamped copy only after a login and
\* only of a corpus file that exists; every other outcome ends it with False.
UpdateKnowledgeBase(outcome) ==
    /\ WriterMayStep
    /\ writer.op = "none"
    /\ Count(file.text, "OBNOVLENO") < MaxUpdates
    /\ LET backed == IF file.status = "ok"
                     THEN [disk EXCEPT !.backup = TextFile(file.text)]
                     ELSE disk
       IN  IF outcome = "logged_in" /\ file.status = "ok"
           THEN /\ disk' = [backed EXCEPT !.temp = TextFile(UpdatedContent(file.text))]
                /\ writer' = [op |-> "run_parsing", stage |-> "temp",
                              old |-> file.text, new |-> UpdatedContent(file.text),
                              existed |-> TRUE, ok |-> TRUE]
           ELSE /\ disk' = backed
                /\ writer' = [op |-> "run_parsing", stage |-> "closed",
                              old |-> file.text, new |-> file.text,
                              existed |-> file.status = "ok", ok |-> FALSE]
    /\ UNCHANGED <<file, segs, question, pc, ret, calls, reply, frame, pending, keyboards, accuracy_stats>>

\* os.replace(TEMP_KNOWLEDGE_FILE, KNOWLEDGE_FILE): the corpus file becomes
\* the temporary file in one step.
ReplaceCorpus ==
    /\ WriterMayStep
    /\ writer.stage = "temp"
    /\ file' = [status |-> "ok", text |-> disk.temp.text]
    /\ disk' = [disk EXCEPT !.temp = Absent]
    /\ writer' = [writer EXCEPT !.stage = "closed"]
    /\ UNCHANGED <<segs, question, pc, ret, calls, reply, frame, pending, keyboards, accuracy_stats>>

\* Mutant: the failure comes after the replace has taken place.
ReplaceFails_Replaced ==
    /\ WriterMayStep
    /\ writer.stage = "temp"
    /\ file' = [status |-> "ok", text |-> disk.temp.text]
    /\ disk' = [disk EXCEPT !.temp = Absent]
    /\ writer' = [writer EXCEPT !.stage = "closed", !.ok = FALSE]
    /\ UNCHANGED <<segs, question, pc, ret, calls, reply, frame, pending, keyboards,
                   accuracy_stats>>

\* os.replace raises: run_parsing ends with False, the corpus file is as it
\* was and the temporary file stays.
ReplaceFails ==
    /\ WriterMayStep
    /\ writer.stage = "temp"
    /\ writer' = [writer EXCEPT !.stage = "closed", !.ok = FALSE]
    /\ UNCHANGED <<file, segs, question, pc, ret, calls, reply, frame, pending, keyboards, disk,
                   accuracy_stats>>

\* The operation returns its success to its caller.
WriterReturns ==
    /\ WriterMayStep
    /\ writer.stage = "closed"
    /\ writer' = NoWriter
    /\ UNCHANGED <<file, segs, question, pc, ret, calls, reply, frame, pending, keyboards, disk,
                   accuracy_stats>>

\* SpecFiles: load_articles beside every writer of the corpus file, with
\* the flat-text export as the source of the imports.
NextFiles ==
    \/ LoadArticles
    \/ ReaderReturns
    \/ ExportKnowledge("txt")
    \/ \E copied \in BOOLEAN : CreateBackup(copied)
    \/ ImportKnowledge("exported", TRUE)
    \/ RestoreBackup
    \/ WriterWrites
    \/ WriterCloses
    \/ WriterFails
    \/ \E outcome \in ParsingOutcomes : UpdateKnowledgeBase(outcome)
    \/ ReplaceCorpus
    \/ ReplaceFails
    \/ WriterReturns

SpecFiles == InitFiles /\ [][NextFiles]_vars

\* SpecImport: the exports and the imports of every source, with and
\* without the backup, and load_articles.
NextImport ==
    \/ LoadArticles
    \/ ReaderReturns
    \/ \E format_type \in { "txt", "json" } : ExportKnowledge(format_type)
    \/ \E file_path \in ImportSources, copied \in BOOLEAN :
            ImportKnowledge(file_path, copied)
    \/ WriterWrites
    \/ WriterCloses
    \/ WriterFails
    \/ WriterReturns

SpecImport == InitFiles /\ [][NextImport]_vars

\* SpecReaders: every reader of the corpus file and the handler that counts
\* the answers, beside the collection run and the restore.
NextReaders ==
    \/ LoadArticles
    \/ SearchArticles
    \/ \E q \in FilesQuestions : GenerateResponse(q)
    \/ \E r \in FilesReplies : ServiceReplies(r)
    \/ AnalyzeCoverage
    \/ FindGaps(FilesGapQuestions)
    \/ GetKnowledgeStats
    \/ ReaderReturns
    \/ HandleQuestionsEnds
    \/ RestoreBackup
    \/ WriterWrites
    \/ WriterCloses
    \/ WriterFails
    \/ \E outcome \in ParsingOutcomes : UpdateKnowledgeBase(outcome)
    \/ ReplaceCorpus
    \/ ReplaceFails
    \/ WriterReturns

SpecReaders == InitFiles /\ [][NextReaders]_vars

----------------------------------------------------------------------------
(* SpecCleanup: the backups in the directory 'database' and                *)
(* cleanup_old_backups.                                                     *)

\* Most backups in the directory, and the largest max_backups handed in.
MaxStamped == 3

MaxKeep == 2

\* The content of the i-th backup that was taken.
BackupText(i) == "kopiya " \o ToString(i)

\* The backups that stay when cleanup_old_backups has sorted the listed
\* backups by os.path.getctime, newest first, and removed those behind the
\* first max_backups; a backup is named by its place in stamped. A remove
\* that raises ends the call with (False, message).
cleanup_old_backups(stamped, ctimes, max_backups, removable) ==
    LET backup_files == SortByScore([i \in 1..Len(stamped) |->
                                        [article |-> i, score |-> ctimes[i]]])
        removed == { backup_files[k].article : k \in (max_backups + 1)..Len(backup_files) }
        places  == SelectSeq([i \in 1..Len(stamped) |-> i], LAMBDA i : i \notin removed)
    IN  IF removed # {} /\ ~removable
        THEN [ok |-> FALSE, kept |-> 0, stamped |-> stamped]
        ELSE [ok |-> TRUE,
              kept |-> Min(Len(backup_files), max_backups),
              stamped |-> [k \in 1..Len(places) |-> stamped[places[k]]]]

\* No cleanup has been asked for.
NoCleanup == [max_backups |-> 0, ctimes |-> << >>]

\* The times of the last change of status of the backups: one moment for
\* each, no two the same, in any order.
Ctimes ==
    { c \in [1..MaxStamped -> 1..MaxStamped] :
        \A i, j \in 1..MaxStamped : c[i] = c[j] => i = j }

\* The corpus and between none and MaxStamped backups, in the order in
\* which they were taken.
InitCleanup ==
    /\ file = [status |-> "ok", text |-> FilesCorpus]
    /\ segs = << >>
    /\ question = NoCleanup
    /\ pc = "idle"
    /\ ret = Raise("")
    /\ calls = << >>
    /\ reply = NoReply
    /\ frame = NoFrame
    /\ accuracy_stats = [total |-> 0, correct |-> 0]
    /\ writer = NoWriter
    /\ pending = NoCall
    /\ keyboards = << >>
    /\ \E n \in 0..MaxStamped :
            disk = [NoOtherFiles EXCEPT !.stamped = [i \in 1..n |-> BackupText(i)]]

\* FileManager.cleanup_old_backups(max_backups), with the times of the last
\* change of status that os.path.getctime reports of the backups (on Unix;
\* the order of these times is not bound to the order of creation).
CleanupOldBackups(max_backups, ctimes, removable) ==
    /\ pc \in { "idle", "cleaned" }
    /\ pc' = "cleaned"
    /\ question' = [max_backups |-> max_backups,
                    ctimes |-> [i \in 1..Len(disk.stamped) |-> ctimes[i]]]
    /\ LET done == cleanup_old_backups(disk.stamped, ctimes, max_backups, removable)
       IN  /\ ret' = [ok |-> done.ok, kept |-> done.kept]
           /\ disk' = [disk EXCEPT !.stamped = done.stamped]
    /\ UNCHANGED <<file, segs, calls, reply, frame, pending, keyboards, accuracy_stats, writer>>

\* The caller has taken the result of the cleanup.
CleanupReturns ==
    /\ pc = "cleaned"
    /\ pc' = "idle"
    /\ question' = NoCleanup
    /\ ret' = Raise("")
    /\ UNCHANGED <<file, segs, calls, reply, frame, others>>

NextCleanup ==
    \/ \E max_backups \in 0..MaxKeep, ctimes \in Ctimes,
          removable \in BOOLEAN :
            CleanupOldBackups(max_backups, ctimes, removable)
    \/ CleanupReturns
    \/ \E format_type \in { "txt", "json" } : ExportKnowledge(format_type)

SpecCleanup == InitCleanup /\ [][NextCleanup]_vars

----------------------------------------------------------------------------
(* SpecLive: two generate_response calls on one event loop, each POST      *)
(* ended by its reply or by its timeout.                                   *)

\* A question the corpus answers through the service, a yes/no question it
\* answers directly, and one foreign to the corpus.
LiveQuestions == { "oplata scheta", "mozhno li oplatit", "pogoda zavtra" }

\* generate_response(question) of the second call, up to its first await or
\* its return. Between two awaits a coroutine runs alone on the event loop,
\* so the step is one step beside the steps of the current call.
OtherGenerateResponse(q) ==
    /\ pending.pc = "idle"
    /\ LET found == search_articles(file, q)
       IN  pending' =
             IF found.raised # ""
             THEN [pc |-> "done", question |-> q, calls |-> << >>,
                   frame |-> NoFrame, ret |-> Raise(found.raised)]
             ELSE IF found.value # << >>
             THEN LET best_article == found.value[1]
                      content == extract_main_content(best_article)
                      script  == extract_script(best_article)
                      title   == get_article_title(best_article)
                  IN  IF is_direct_answer(q, content)
                      THEN [pc |-> "done", question |-> q, calls |-> << >>,
                            frame |-> NoFrame,
                            ret |-> Triple(PyStr(content), script, title)]
                      ELSE [pc |-> "awaiting", question |-> q,
                            calls |-> << EnhancePrompt(q, content) >>,
                            frame |-> [mode |-> "enhance", content |-> content,
                                       script |-> script, title |-> title],
                            ret |-> Raise("")]
             ELSE [pc |-> "awaiting", question |-> q, calls |-> << q >>,
                   frame |-> [NoFrame EXCEPT !.mode = "fallback"],
                   ret |-> Raise("")]
    /\ UNCHANGED <<file, segs, question, pc, ret, calls, reply, frame,
                   disk, accuracy_stats, writer, keyboards>>

\* The service answers the POST of the second call, or its timeout=30 ends
\* it, and the call runs to its return.
OtherServiceReplies(r) ==
    /\ pending.pc = "awaiting"
    /\ pending' = [pending EXCEPT !.pc = "done", !.ret = Resume(pending.frame, r),
                                  !.frame = NoFrame]
    /\ UNCHANGED <<file, segs, question, pc, ret, calls, reply, frame,
                   disk, accuracy_stats, writer, keyboards>>

\* The second call has returned to its caller.
OtherHandlerReturns ==
    /\ pending.pc = "done"
    /\ pending' = NoCall
    /\ UNCHANGED <<file, segs, question, pc, ret, calls, reply, frame,
                   disk, accuracy_stats, writer, keyboards>>

InitLive ==
    /\ \/ file = [status |-> "ok", text |-> FilesCorpus]
       \/ \E st \in FileStatuses \ {"ok"} : file = [status |-> st, text |-> ""]
    /\ segs = << >>
    /\ question = ""
    /\ pc = "idle"
    /\ ret = Raise("")
    /\ calls = << >>
    /\ reply = NoReply
    /\ frame = NoFrame
    /\ OthersInit

NextLive ==
    \/ \E q \in LiveQuestions : GenerateResponse(q)
    \/ \E r \in FilesReplies : ServiceReplies(r)
    \/ HandlerReturns
    \/ \E q \in LiveQuestions : OtherGenerateResponse(q)
    \/ \E r \in FilesReplies : OtherServiceReplies(r)
    \/ OtherHandlerReturns

\* session.post(..., timeout=30): a POST that is under way ends, by the reply
\* of the service or by TimeoutError, whatever the other call does.
SpecLive ==
    /\ InitLive
    /\ [][NextLive]_vars
    /\ WF_vars(\E r \in FilesReplies : ServiceReplies(r))
    /\ WF_vars(\E r \in FilesReplies : OtherServiceReplies(r))

----------------------------------------------------------------------------
(* SpecAccuracy: answered questions, the presses of their accuracy         *)
(* keyboards and the reports of the accuracy.                              *)

NextAccuracy ==
    \/ \E q \in FilesQuestions : GenerateResponse(q)
    \/ \E r \in FilesReplies : ServiceReplies(r)
    \/ HandleQuestionsEnds
    \/ \E action \in { "correct", "incorrect" }, count \in 1..MaxAnswered :
            HandleAccuracyFeedback(action, count)
    \/ \E count \in 1..MaxAnswered : EditText(count)
    \/ ShowAccuracy
    \/ ReaderReturns

SpecAccuracy == InitFiles /\ [][NextAccuracy]_vars

----------------------------------------------------------------------------
(* Claims about the readers and the writers of the corpus file.            *)

\* A call of a reader has run: to its result, or into and out of its wait
\* for the generative service.
ReaderStepped ==
    /\ pc' # pc
    /\ pc' \in { "loaded", "ranked", "awaiting", "done", "analyzed", "gaps", "stats" }

\* The step belongs to a run of the collection pipeline, of an import or of
\* a restore.
CorpusWriterSteps ==
    /\ writer'.op \in { "run_parsing", "import_knowledge", "restore_backup" }
    /\ writer'.stage \in { "opened", "writing", "closed" }

\* C18: a step of load_articles, search_articles, generate_response,
\* analyze_coverage, find_gaps or get_knowledge_stats leaves the corpus
\* file, the backup files and the accuracy counters as they were, and every
\* step that changes the corpus file is a step of run_parsing, of
\* import_knowledge or of restore_backup.
C18_ReadersChangeNothing ==
    [][ /\ ReaderStepped =>
            /\ file' = file
            /\ disk' = disk
            /\ accuracy_stats' = accuracy_stats
        /\ file' # file => CorpusWriterSteps ]_vars

\* The statistics have been read of a corpus that a collection run has
\* replaced, with a backup on disk and an answer counted.
C18_Witness ==
    /\ pc = "stats"
    /\ file.status = "ok"
    /\ Count(file.text, "OBNOVLENO") > 0
    /\ disk.backup.exists
    /\ accuracy_stats.total > 0

\* generate_response has returned an answer while a restore is halfway
\* through the corpus file.
C18_AnsweredWitness ==
    /\ pc = "done"
    /\ ret.raised = ""
    /\ writer.op = "restore_backup"
    /\ writer.stage = "writing"
    /\ accuracy_stats.total > 0

\* load_articles has returned while an update of the corpus file is under
\* way: begun and not yet returned.
RacingRead == pc = "loaded" /\ writer.op # "none"

\* What load_articles returns of a corpus file with the given content.
ArticlesOf(text) == load_articles([status |-> "ok", text |-> text])

\* What it returns of the corpus file as it was before the update.
ArticlesBefore ==
    IF writer.existed THEN ArticlesOf(writer.old)
    ELSE load_articles([status |-> "missing", text |-> ""])

\* C19: a read of the corpus that races with run_parsing, import_knowledge
\* or restore_backup returns the articles of the complete content before
\* the update or of the complete content after it.
C19_ReadsOldOrNew ==
    RacingRead => ret \in { ArticlesBefore, ArticlesOf(writer.new) }

\* The same of the collection run alone, whose os.replace is one step.
C19_ReplaceIsAtomic ==
    (RacingRead /\ writer.op = "run_parsing") =>
        ret \in { ArticlesBefore, ArticlesOf(writer.new) }

\* A read has raced with a collection run that has replaced the file.
C19_ReplaceWitness ==
    /\ RacingRead
    /\ writer.op = "run_parsing"
    /\ writer.stage = "closed"
    /\ ret = ArticlesOf(writer.new)
    /\ ret # ArticlesBefore

\* load_articles has returned behind an import of the file that
\* export_knowledge(fmt) had written of the corpus as it was before.
RoundTripDone(fmt) ==
    /\ pc = "loaded"
    /\ writer.op = "import_knowledge"
    /\ writer.stage = "closed"
    /\ writer.ok
    /\ writer.existed
    /\ disk.export = export_knowledge([status |-> "ok", text |-> writer.old], fmt).out

\* C20: after export_knowledge(fmt) and import_knowledge of the file it
\* wrote, load_articles returns the articles it returned before the export,
\* for the flat text and for JSON.
C20_RoundTrip ==
    \A fmt \in { "txt", "json" } : RoundTripDone(fmt) => ret = ArticlesBefore

\* The same of the flat text alone.
C20_FlatTextRoundTrip ==
    RoundTripDone("txt") => ret = ArticlesBefore

\* A flat-text export of a corpus of two articles has been imported and read.
C20_FlatTextWitness ==
    /\ RoundTripDone("txt")
    /\ Len(ret.value) = 2

----------------------------------------------------------------------------
(* Claims about the backups, the failures and the counters.                *)

\* import_knowledge has opened, and so emptied, a corpus file that existed.
Overwriting ==
    /\ writer.op = "import_knowledge"
    /\ writer.stage \in { "opened", "writing" }
    /\ writer.existed

\* C21: whenever import_knowledge has begun to overwrite a corpus file that
\* existed, the newest backup database/knowledge_backup_<timestamp>.txt
\* holds exactly the content the corpus had before the import; without that
\* backup the corpus file is not overwritten.
C21_BackupBeforeOverwrite ==
    Overwriting =>
        /\ disk.stamped # << >>
        /\ disk.stamped[Len(disk.stamped)] = writer.old

\* An import overwrites the corpus behind a backup that was taken.
C21_BackedUpWitness ==
    /\ Overwriting
    /\ disk.stamped = << writer.old >>
    /\ writer.old # ""

\* A successful cleanup_old_backups has just returned.
Cleaned == pc' = "cleaned" /\ ret'.ok

\* The smaller of two numbers.
Least(a, b) == IF a <= b THEN a ELSE b

\* The last n backups in the order of their creation.
NewestTaken(n) ==
    SubSeq(disk.stamped, Len(disk.stamped) - n + 1, Len(disk.stamped))

\* C22: a successful cleanup_old_backups(N) over B backups leaves exactly
\* min(B, N) of them, the most recently created ones, and removes no other
\* file; a second call right behind it removes nothing.
C22_KeepsNewest ==
    [][ Cleaned =>
            /\ disk'.stamped = NewestTaken(Least(Len(disk.stamped), question'.max_backups))
            /\ disk'.backup = disk.backup /\ disk'.temp = disk.temp
            /\ disk'.export = disk.export /\ file' = file
            /\ (pc = "cleaned" /\ ret.ok /\ question'.max_backups = question.max_backups)
                    => disk' = disk ]_vars

\* What holds of the code: min(B, N) backups stay, none of them with an
\* earlier getctime than a removed one, no other file is touched and a
\* second call removes nothing.
C22_KeepsLatestChanged ==
    [][ Cleaned =>
            LET stayed == { i \in 1..Len(disk.stamped) :
                              \E k \in 1..Len(disk'.stamped) :
                                  disk'.stamped[k] = disk.stamped[i] }
            IN  /\ Len(disk'.stamped) = Least(Len(disk.stamped), question'.max_backups)
                /\ \A i \in stayed : \A j \in (1..Len(disk.stamped)) \ stayed :
                        question'.ctimes[i] >= question'.ctimes[j]
                /\ disk'.backup = disk.backup /\ disk'.temp = disk.temp
                /\ disk'.export = disk.export /\ file' = file
                /\ (pc = "cleaned" /\ ret.ok
                        /\ question'.max_backups = question.max_backups)
                        => disk' = disk ]_vars

\* Two of three backups have been removed and the one that stayed is not
\* the newest.
C22_OlderStaysWitness ==
    /\ pc = "cleaned" /\ ret.ok
    /\ question.max_backups = 1
    /\ Len(question.ctimes) = 3
    /\ disk.stamped = << BackupText(1) >>


\* A call of generate_response is under way or has just ended.
CallBegun == pc \in { "awaiting", "done" }

ReturnedTriple == pc = "done" /\ ret.raised = ""

OtherReturnedTriple == pending.pc = "done" /\ pending.ret.raised = ""

\* C23 as claimed: every generate_response call eventually returns a triple,
\* the current one and the one that runs beside it.
C23_EveryCallReturnsTriple ==
    /\ CallBegun ~> ReturnedTriple
    /\ (pending.pc # "idle") ~> OtherReturnedTriple

\* What holds of C23: a call that is suspended on its POST eventually
\* returns a triple, whatever the other call does.
C23_SuspendedCallReturns ==
    /\ (pc = "awaiting") ~> ReturnedTriple
    /\ (pending.pc = "awaiting") ~> OtherReturnedTriple

\* A call that raises has not been suspended: it raised what reading the
\* corpus file raised.
C23_RaisesBeforeSuspending ==
    /\ (pc = "done" /\ ret.raised # "") =>
            calls = << >> /\ ret.raised = FileError(file)
    /\ (pending.pc = "done" /\ pending.ret.raised # "") =>
            pending.calls = << >> /\ pending.ret.raised = FileError(file)

\* The current call has come back from its POST with a triple while the
\* POST of the other call, begun before, is still under way.
C23_ReturnsBesidePending ==
    /\ ReturnedTriple
    /\ calls # << >>
    /\ pending.pc = "awaiting"

\* A call has ended without a triple: the corpus file could not be read.
C23_RaisedWitness == pc = "done" /\ ret.raised = "PermissionError"


\* The texts of the percentages between 0% and 100%, as get_accuracy
\* writes them: "0%" and one decimal otherwise.
Percentages ==
    { "0%", "100.0%" }
    \cup { ToString(a) \o "." \o ToString(b) \o "%" : a \in 0..99, b \in 0..9 }

\* C24 as claimed: in every reachable state 0 <= correct <= total, no
\* answered question has been counted as correct more than once, and
\* get_accuracy reports a percentage between 0% and 100%, "0%" when total
\* is 0.
C24_CountersConsistent ==
    /\ 0 <= accuracy_stats.correct
    /\ accuracy_stats.correct <= accuracy_stats.total
    /\ \A count \in 1..Len(keyboards) : keyboards[count].correct <= 1
    /\ pc = "accuracy" =>
            /\ ret.value \in Percentages
            /\ accuracy_stats.total = 0 => ret.value = "0%"

\* What holds of C24: the counters are never negative, total is the number
\* of accuracy keyboards sent, correct is at most MaxCallbacks per keyboard,
\* and "0%" is reported when nothing has been answered.
C24_CountersNeverNegative ==
    /\ 0 <= accuracy_stats.correct
    /\ accuracy_stats.total = Len(keyboards)
    /\ accuracy_stats.correct <= MaxCallbacks * accuracy_stats.total
    /\ (pc = "accuracy" /\ accuracy_stats.total = 0) => ret.value = "0%"

\* One answer, its "correct" button pressed twice before the first
\* edit_text took the keyboard away, and the accuracy reported.
C24_PressedTwiceWitness ==
    /\ pc = "accuracy"
    /\ accuracy_stats = [total |-> 1, correct |-> 2]
    /\ ret.value = "200.0%"

\* One answer marked correct once, its keyboard gone, the accuracy reported.
C24_PressedOnceWitness ==
    /\ pc = "accuracy"
    /\ accuracy_stats = [total |-> 1, correct |-> 1]
    /\ ~keyboards[1].shown
    /\ ret.value = "100.0%"


\* update_knowledge_base has returned False (in the step's second state).
UpdateFailed ==
    /\ writer'.op = "run_parsing"
    /\ writer'.stage = "closed"
    /\ ~writer'.ok

C25_MissingWitness ==
    /\ writer.op = "run_parsing"
    /\ writer.stage = "closed"
    /\ ~writer.ok
    /\ file.status = "missing"

\* An update has returned True: the corpus file is the stamped copy.
C25_ReplacedWitness ==
    /\ writer.op = "run_parsing"
    /\ writer.stage = "closed"
    /\ writer.ok
    /\ file.text = UpdatedContent(writer.old)


\* import_knowledge has returned (False, message) (in the step's second
\* state).
ImportFailed ==
    /\ writer'.op = "import_knowledge"
    /\ writer'.stage = "closed"
    /\ ~writer'.ok

\* C26 as claimed: whenever import_knowledge returns a failure the corpus
\* file is as it was before the call, and a failure to read the source
\* (it cannot be opened, is not valid JSON, an article lacks a key) comes
\* with no backup created and the corpus file not touched.
C26_FailedImportKeepsCorpus ==
    [][ ImportFailed =>
            /\ file'.text = writer'.old
            /\ (file'.status = "ok") = writer'.existed
            /\ writer.op = "none" => (disk' = disk /\ file' = file) ]_vars

\* What holds of C26: an import that fails while it reads its source has
\* created no backup and has not touched the corpus file.
C26_BadSourceTouchesNothing ==
    [][ (ImportFailed /\ writer.op = "none") => (disk' = disk /\ file' = file) ]_vars

\* An import of a JSON file with an article without title has returned its
\* failure: the corpus of two articles is there and no backup is.
C26_BadSourceWitness ==
    /\ writer.op = "import_knowledge"
    /\ writer.stage = "closed"
    /\ ~writer.ok
    /\ file = [status |-> "ok", text |-> FilesCorpus]
    /\ disk.stamped = << >>
    /\ disk.export.exists

\* An import has returned its failure behind the backup it took: the write
\* raised and the corpus file, which held two articles, is empty.
C26_EmptiedWitness ==
    /\ writer.op = "import_knowledge"
    /\ writer.stage = "closed"
    /\ ~writer.ok
    /\ writer.old = FilesCorpus
    /\ disk.stamped = << FilesCorpus >>
    /\ file = [status |-> "ok", text |-> ""]


\* FileManager.restore_backup() has returned, with either result.
Restored == writer.op = "restore_backup" /\ writer.stage = "closed"

\* C27 as claimed: once FileManager.create_backup() has succeeded, a
\* restore_backup() with its default argument leaves the corpus file with
\* the content it had when that backup, the newest, was taken, whatever
\* has changed the corpus file in between.
C27_RestoreInvertsBackup ==
    (Restored /\ disk.stamped # << >>) =>
        /\ writer.ok
        /\ file = [status |-> "ok", text |-> disk.stamped[Len(disk.stamped)]]

\* What holds of C27: a successful restore_backup() leaves the corpus file
\* with the content of BACKUP_KNOWLEDGE_FILE, the copy Parser.create_backup
\* made at the start of the last update; one that finds no such file leaves
\* the corpus file as it was.
C27_RestoresUpdateBackup ==
    Restored =>
        /\ writer.ok => file = [status |-> "ok", text |-> disk.backup.text]
        /\ (~writer.ok /\ ~disk.backup.exists) => file.text = writer.old

\* A backup was taken, an import has replaced the corpus, and
\* restore_backup() has returned that there is no backup file: the corpus
\* is still the imported one.
C27_NotFoundWitness ==
    /\ Restored
    /\ ~writer.ok
    /\ disk.stamped = << FilesCorpus >>
    /\ file.status = "ok"
    /\ file.text # FilesCorpus
    /\ file.text = writer.old

\* restore_backup() has brought back the corpus of before the last update,
\* not the updated one that create_backup() copied afterwards.
C27_OlderRestoredWitness ==
    /\ Restored
    /\ writer.ok
    /\ disk.stamped = << UpdatedContent(FilesCorpus) >>
    /\ file = [status |-> "ok", text |-> FilesCorpus]

=============================================================================
